---- MODULE Spec2Model ----
(***************************************************************************)
(* The self-custodied Bitcoin transaction engine of fee-comp               *)
(* (src/src/account.ts): the UTXO ledger (reservations, local spends,      *)
(* pending change), coin selection, the four build paths and recovery     *)
(* from the mempool, as a cooperative single-threaded state machine whose  *)
(* actions are the scheduling turns between two awaits; with the callers   *)
(* of the engine: the mempool visibility wait, the retry loop of Relay's   *)
(* BTC->EVM execute (src/src/providers/relay.ts) and the settlement        *)
(* tracker (src/src/settlement-tracker.ts).                                *)
(***************************************************************************)
EXTENDS Integers, Sequences, FiniteSets, TLC

\* ------------------------------------------------------------------------
\* Bounds of the model
\* ------------------------------------------------------------------------
MaxOps == 2
MaxTicks == 1
MaxCrashes == 1
MaxTimerLateMs == 1000
MaxLookupMs == 3000
MaxSwaps == 2
MaxSettleTicks == 3
MaxRuns == 2

\* ------------------------------------------------------------------------
\* Program constants
\* ------------------------------------------------------------------------
UTXO_RESERVATION_TTL == 60000
SPENT_UTXO_TTL == 600000
THORCHAIN_BTC_DUST_THRESHOLD == 10000
DUST_THRESHOLD == 546
MAX_MEMO_BYTES == 80
FEE_RATE_CACHE_TTL == 60000
MIN_FEE_RATE == 2
MEMPOOL_POLL_INTERVAL_MS == 2000
MEMPOOL_MAX_WAIT_MS == 60000
MEMPOOL_MIN_WAIT_MS == 3000
MAX_RETRIES == 3
RETRY_BACKOFF_MS == 2000
POLL_INTERVAL_MS == 30000
MAX_WAIT_MS == 86400000
README_TIMEOUT_MS == 7200000
FIRST_CHECK_MS == 10000
FIRST_GAP_MS == POLL_INTERVAL_MS - FIRST_CHECK_MS
DEFAULT_FEE_RATES ==
  [fastestFee |-> 15, halfHourFee |-> 10, hourFee |-> 8, economyFee |-> 5, minimumFee |-> 2]

\* ------------------------------------------------------------------------
\* The world the engine runs in: one funding transaction whose outputs are
\* the UTXOs of the engine's address, the amounts callers ask for, the fee
\* rate the oracle answers, and the PSBT templates a venue hands in.
\* ------------------------------------------------------------------------
FundingTxid == 0
Utxos ==
  { [txid |-> FundingTxid, vout |-> 0, value |-> 50000],
    [txid |-> FundingTxid, vout |-> 1, value |-> 30000],
    [txid |-> FundingTxid, vout |-> 2, value |-> 20000] }

\* answers of GET /address/{addr}/utxo: nothing, everything, and stale or
\* partial views
UtxoListings ==
  { {}, Utxos, {u \in Utxos : u.value < 50000}, {u \in Utxos : u.value < 30000} }

Amounts == {10000, 40000, 48000}
MemoLens == {20, 81}

Ops == 1..MaxOps
\* the clock advances to the last instant a reservation is honoured, to the
\* first instant it is not, or past the life of a Spend record
TimeSteps == {UTXO_RESERVATION_TTL, UTXO_RESERVATION_TTL + 1, SPENT_UTXO_TTL + 1}

\* key of a UTXO, `${txid}:${vout}`
utxoKey(u) == <<u.txid, u.vout>>

Keys == {utxoKey(u) : u \in Utxos}

UtxoOfKey(k) == CHOOSE u \in Utxos : utxoKey(u) = k

\* PSBT templates of a venue: declared inputs (in order) and outputs.
\* kind: "pay" another address, "self" the engine's own address,
\* "opret" an OP_RETURN script, "raw" a script that decodes to no address.
Templates ==
  << [ins  |-> << <<FundingTxid, 0>> >>,
      outs |-> << [kind |-> "pay",   value |-> 40000, scriptLen |-> 22],
                  [kind |-> "opret", value |-> 0,     scriptLen |-> 22],
                  [kind |-> "self",  value |-> 8000,  scriptLen |-> 22] >>],
     [ins  |-> << <<FundingTxid, 1>>, <<FundingTxid, 0>> >>,
      outs |-> << [kind |-> "self",  value |-> 5000,  scriptLen |-> 22],
                  [kind |-> "pay",   value |-> 10000, scriptLen |-> 22],
                  [kind |-> "raw",   value |-> 3000,  scriptLen |-> 35] >>] >>

TemplateIds == 1..Len(Templates)

\* ------------------------------------------------------------------------
\* Finite maps (JavaScript Map): functions with a finite domain
\* ------------------------------------------------------------------------
EmptyMap == [x \in {} |-> 0]

MapSetAll(m, S, v) == [x \in (DOMAIN m) \cup S |-> IF x \in S THEN v ELSE m[x]]

MapDelete(m, S) == [x \in (DOMAIN m) \ S |-> m[x]]

SeqRange(s) == {s[i] : i \in 1..Len(s)}

\* ------------------------------------------------------------------------
\* UTXO ledger (pure operators on the three maps; t is Date.now())
\* ------------------------------------------------------------------------

\* reservedUtxos.set(key, {expiresAt}) for every utxo key in ks
reserveUtxos(res, ks, t) == MapSetAll(res, ks, [expiresAt |-> t + UTXO_RESERVATION_TTL])

releaseUtxos_keep(res, ks) == res

\* reservedUtxos.delete(key) for every utxo key in ks
releaseUtxos(res, ks) == MapDelete(res, ks)

\* a reservation entry that isUtxoReserved would still honour at time t
ReservationLive(res, k, t) == k \in DOMAIN res /\ ~(t > res[k].expiresAt)

isUtxoReserved_strict(res, k, t) == k \in DOMAIN res /\ t < res[k].expiresAt

\* result of isUtxoReserved / isUtxoKeyReserved
isUtxoReserved(res, k, t) == ReservationLive(res, k, t)

\* side effect of isUtxoReserved / isUtxoKeyReserved called on the keys ks:
\* entries found expired are deleted
lazyExpireReserved(res, ks, t) ==
  MapDelete(res, {k \in ks \cap DOMAIN res : t > res[k].expiresAt})

cleanupExpiredReservations_all(res, t) == EmptyMap

\* delete every reservation with now > expiresAt
cleanupExpiredReservations(res, t) ==
  MapDelete(res, {k \in DOMAIN res : t > res[k].expiresAt})

\* recordSpentUtxos, effect on spentUtxos
recordSpentUtxos(sp, ks, spentInTxid, t) ==
  MapSetAll(sp, ks, [spentInTxid |-> spentInTxid, spentAt |-> t])

\* recordSpentUtxos, effect on reservedUtxos
recordSpentUnreserve(res, ks) == MapDelete(res, ks)

\* recordPendingChange
recordPendingChange(pc, txid, vout, value) ==
  MapSetAll(pc, {<<txid, vout>>}, [txid |-> txid, vout |-> vout, value |-> value])

SpendLive(sp, k, t) == k \in DOMAIN sp /\ ~(t - sp[k].spentAt > SPENT_UTXO_TTL)

\* isUtxoSpentByUs(key).spent
isUtxoSpentByUs(sp, k, t) == SpendLive(sp, k, t)

\* side effect of isUtxoSpentByUs called on the keys ks
lazyExpireSpent(sp, ks, t) ==
  MapDelete(sp, {k \in ks \cap DOMAIN sp : t - sp[k].spentAt > SPENT_UTXO_TTL})

cleanupSpentUtxos_all(sp, t) == EmptyMap

\* cleanupSpentUtxos, effect on spentUtxos
cleanupSpentUtxos(sp, t) ==
  MapDelete(sp, {k \in DOMAIN sp : t - sp[k].spentAt > SPENT_UTXO_TTL})

\* cleanupSpentUtxos, effect on pendingChangeUtxos: the second loop looks the
\* change key up in spentUtxos after the first loop has removed the expired
\* records
cleanupPendingChange(pch, sp, t) ==
  LET sp1 == cleanupSpentUtxos(sp, t)
  IN  MapDelete(pch, {k \in DOMAIN pch :
                        /\ k \in DOMAIN sp1
                        /\ sp1[k].spentAt # 0
                        /\ t - sp1[k].spentAt > SPENT_UTXO_TTL})

\* ------------------------------------------------------------------------
\* Coin selection (pure)
\* ------------------------------------------------------------------------

calcVsize_floor(inputs, regularOutputs, opReturnSize) ==
  10 + 68 * inputs + 31 * regularOutputs + opReturnSize

\* Math.ceil(10.5 + 68*inputs + 31*outputs + opReturnSize), computed on the
\* doubled quantity so that the half is exact
calcVsize(inputs, regularOutputs, opReturnSize) ==
  LET twice == 21 + 2 * (68 * inputs + 31 * regularOutputs + opReturnSize)
  IN  (twice + 1) \div 2

\* opReturnSize of sendBitcoinWithMemo
memoOpReturnSize(memoLen) == 1 + 1 + 1 + 1 + memoLen + 8

SumValues(S) ==
  LET RECURSIVE Sum(_)
      Sum(T) == IF T = {} THEN 0
                ELSE LET u == CHOOSE x \in T : TRUE IN u.value + Sum(T \ {u})
  IN  Sum(S)

sortedUtxos_ascending(S) ==
  LET RECURSIVE Sort(_)
      Sort(T) == IF T = {} THEN <<>>
                 ELSE LET m == CHOOSE x \in T : \A y \in T : y.value >= x.value
                      IN  <<m>> \o Sort(T \ {m})
  IN  Sort(S)

\* [...availableUtxos].sort((a, b) => b.value - a.value)
sortedUtxos(S) ==
  LET RECURSIVE Sort(_)
      Sort(T) == IF T = {} THEN <<>>
                 ELSE LET m == CHOOSE x \in T : \A y \in T : y.value <= x.value
                      IN  <<m>> \o Sort(T \ {m})
  IN  Sort(S)

greedySelect_all(sorted, amount, feeRate, regularOutputs, opReturnSize) ==
  LET RECURSIVE Loop(_, _, _)
      Loop(i, sel, total) ==
        IF i > Len(sorted) THEN [selected |-> sel, totalInput |-> total]
        ELSE Loop(i + 1, Append(sel, sorted[i]), total + sorted[i].value)
  IN  Loop(1, <<>>, 0)

\* the greedy loop: push candidates in order, stop once
\* totalInput >= amount + feeRate * calcVsize(selected, regularOutputs)
greedySelect(sorted, amount, feeRate, regularOutputs, opReturnSize) ==
  LET RECURSIVE Loop(_, _, _)
      Loop(i, sel, total) ==
        IF i > Len(sorted) THEN [selected |-> sel, totalInput |-> total]
        ELSE LET sel1   == Append(sel, sorted[i])
                 total1 == total + sorted[i].value
                 needed == amount + feeRate * calcVsize(Len(sel1), regularOutputs, opReturnSize)
             IN  IF total1 >= needed
                 THEN [selected |-> sel1, totalInput |-> total1]
                 ELSE Loop(i + 1, sel1, total1)
  IN  Loop(1, <<>>, 0)

availableUtxos_ignorePending(allUtxos, pendingSpends, res, sp, t) ==
  {u \in allUtxos :
     /\ ~isUtxoReserved(res, utxoKey(u), t)
     /\ ~isUtxoSpentByUs(sp, utxoKey(u), t)}

availableUtxos_ignoreReserved(allUtxos, pendingSpends, res, sp, t) ==
  {u \in allUtxos :
     /\ utxoKey(u) \notin pendingSpends
     /\ ~isUtxoSpentByUs(sp, utxoKey(u), t)}

\* allUtxos.filter(u => !pendingSpends.has(key) && !isUtxoReserved(u)
\*                      && !isUtxoSpentByUs(key).spent)
availableUtxos(allUtxos, pendingSpends, res, sp, t) ==
  {u \in allUtxos :
     /\ utxoKey(u) \notin pendingSpends
     /\ ~isUtxoReserved(res, utxoKey(u), t)
     /\ ~isUtxoSpentByUs(sp, utxoKey(u), t)}

\* keys on which the build calls isUtxoReserved: the filter short-circuits
\* on pendingSpends; sendBitcoin also counts over allUtxos when it is
\* non-empty
reservedProbes(kind, allUtxos, pendingSpends) ==
  IF kind = "send"
  THEN {utxoKey(u) : u \in allUtxos}
  ELSE {utxoKey(u) : u \in allUtxos} \ pendingSpends

\* keys on which the build calls isUtxoSpentByUs
spentProbes(kind, allUtxos, pendingSpends, res, t) ==
  IF kind = "send"
  THEN {utxoKey(u) : u \in allUtxos}
  ELSE {k \in {utxoKey(u) : u \in allUtxos} \ pendingSpends : ~isUtxoReserved(res, k, t)}

\* ------------------------------------------------------------------------
\* Outputs of the external template kept by buildTxFromRelayOutputs
\* ------------------------------------------------------------------------

\* outputsToInclude: every OP_RETURN, every output not paying our address
outputsToInclude(outs) ==
  LET Keep(x) == x.kind = "opret" \/ x.kind # "self" IN SelectSeq(outs, Keep)

\* totalOutputValue: the kept non-OP_RETURN outputs
SeqSum(s) ==
  LET RECURSIVE Sum(_)
      Sum(i) == IF i > Len(s) THEN 0 ELSE s[i].value + Sum(i + 1)
  IN  Sum(1)

totalOutputValue(outs) ==
  LET Paid(x) == x.kind # "opret" IN SeqSum(SelectSeq(outputsToInclude(outs), Paid))

relayOpReturnSize(outs) ==
  LET IsOpRet(x) == x.kind = "opret"
      ops == SelectSeq(outputsToInclude(outs), IsOpRet)
      RECURSIVE Sum(_)
      Sum(i) == IF i > Len(ops) THEN 0 ELSE ops[i].scriptLen + 9 + Sum(i + 1)
  IN  Sum(1)

numRegularOutputs(outs) ==
  LET Regular(x) == x.kind # "opret" IN Len(SelectSeq(outputsToInclude(outs), Regular)) + 1

\* the outputs psbt.addOutput is called for in the rebuild: OP_RETURN by raw
\* script, the others only when an address was decoded
relayEmitted(outs) ==
  LET Emit(x) == x.kind = "opret" \/ x.kind = "pay"
      AsOut(x) == [role |-> x.kind, value |-> IF x.kind = "opret" THEN 0 ELSE x.value]
      kept == SelectSeq(outputsToInclude(outs), Emit)
  IN  [i \in 1..Len(kept) |-> AsOut(kept[i])]

\* ------------------------------------------------------------------------
\* Fee oracle (getRecommendedFees, getFeeRateForTier)
\* ------------------------------------------------------------------------
FeeTiers == {"economy", "normal", "priority"}

RawRates(f, h, e) ==
  [fastestFee |-> f, halfHourFee |-> h, hourFee |-> h, economyFee |-> e, minimumFee |-> e]

\* what the fee endpoint answers: ok is res.ok of a fetch that did not
\* throw; a tier that is absent or zero in the JSON reads 0
FeeFetchFailed == [ok |-> FALSE, data |-> RawRates(0, 0, 0)]

\* a successful answer with one tier above the floor, one below it and
\* one missing
FeeResponses ==
  { FeeFetchFailed, [ok |-> TRUE, data |-> RawRates(20, 1, 0)] }

\* feeRateCache === null
NoCache == [set |-> FALSE, rates |-> DEFAULT_FEE_RATES, timestamp |-> 0]

floorRate_none(raw, dflt) == raw

\* Math.max(data.tier || DEFAULT_FEE_RATES.tier, MIN_FEE_RATE)
floorRate(raw, dflt) ==
  LET v == IF raw = 0 THEN dflt ELSE raw
  IN  IF v > MIN_FEE_RATE THEN v ELSE MIN_FEE_RATE

\* the rates object built from a successful response
flooredRates(data) ==
  [t \in DOMAIN DEFAULT_FEE_RATES |-> floorRate(data[t], DEFAULT_FEE_RATES[t])]

getRecommendedFees_noStale(cache, resp, t) ==
  IF cache.set /\ t - cache.timestamp < FEE_RATE_CACHE_TTL
  THEN [rates |-> cache.rates, cache |-> cache, fetched |-> FALSE]
  ELSE IF resp.ok
  THEN [rates   |-> flooredRates(resp.data),
        cache   |-> [set |-> TRUE, rates |-> flooredRates(resp.data), timestamp |-> t],
        fetched |-> TRUE]
  ELSE [rates |-> DEFAULT_FEE_RATES, cache |-> cache, fetched |-> TRUE]

\* getRecommendedFees called with the cache as it is, the endpoint answering
\* resp, at time t: the rates returned and the cache left behind
getRecommendedFees(cache, resp, t) ==
  IF cache.set /\ t - cache.timestamp < FEE_RATE_CACHE_TTL
  THEN [rates |-> cache.rates, cache |-> cache, fetched |-> FALSE]
  ELSE IF resp.ok
  THEN [rates   |-> flooredRates(resp.data),
        cache   |-> [set |-> TRUE, rates |-> flooredRates(resp.data), timestamp |-> t],
        fetched |-> TRUE]
  ELSE IF cache.set
  THEN [rates |-> cache.rates, cache |-> cache, fetched |-> TRUE]
  ELSE [rates |-> DEFAULT_FEE_RATES, cache |-> cache, fetched |-> TRUE]

getFeeRateForTier(rates, tier) ==
  CASE tier = "priority" -> rates.fastestFee
    [] tier = "economy"  -> rates.economyFee
    [] OTHER             -> rates.halfHourFee

\* the rate of a build whose fee fetch fails with an empty cache
FeeRateChoices == {getFeeRateForTier(DEFAULT_FEE_RATES, "normal")}

\* ------------------------------------------------------------------------
\* State
\* ------------------------------------------------------------------------
VARIABLES
  now,                \* Date.now()
  ticks,              \* number of clock advances so far
  hasKey,             \* BTC_PRIVATE_KEY is set
  phase,              \* "startup" until main() has awaited the recovery
  crashes,            \* number of restarts so far
  reservedUtxos,      \* key -> [expiresAt]
  spentUtxos,         \* key -> [spentInTxid, spentAt]
  pendingChangeUtxos, \* <<txid, vout>> -> [txid, vout, value]
  op,                 \* the calls of the build paths, by call number
  netTxs,             \* transactions the broadcast endpoint has accepted
  broadcastOk,        \* keys consumed by a broadcast call of this process
                      \* that returned successfully (history)
  feeRateCache,       \* [set, rates, timestamp]: the fee oracle's cache
  vis,                \* the running call of waitForMempoolConfirmation
  exec,               \* the running call of Relay's executeBtcToEvm
  pendingSwaps,       \* settlement tracker: swapId -> swap
  settlementLog,      \* rows written by logSettlement, in order
  runs                \* the calls of checkAllPending that are awaiting

vars == <<now, ticks, hasKey, phase, crashes, reservedUtxos, spentUtxos,
          pendingChangeUtxos, op, netTxs, broadcastOk, feeRateCache,
          vis, exec, pendingSwaps, settlementLog, runs>>

\* the callers of the build paths and the settlement watcher
callers == <<vis, exec, pendingSwaps, settlementLog, runs>>

\* what the build paths themselves never write
side == <<feeRateCache, vis, exec, pendingSwaps, settlementLog, runs>>

ledger == <<reservedUtxos, spentUtxos, pendingChangeUtxos>>

NoTxid == -1

\* a call of checkAllPending that is not running
NoRun == [pc |-> "idle", cursor |-> 0, startedAt |-> 0]

Runs == 1..MaxRuns

\* no call of waitForMempoolConfirmation is running
NoWait ==
  [pc |-> "idle", startTime |-> 0, wakeAt |-> 0, lookups |-> 0, lastAnswer |-> 0,
   result |-> FALSE]

\* no call of executeBtcToEvm is running
NoExec == [pc |-> "idle", attempt |-> 0, lastError |-> "none", wakeAt |-> 0]

IdleOp ==
  [pc |-> "idle", kind |-> "none", amount |-> 0, memoLen |-> 0, tmpl |-> 0,
   inputs |-> <<>>, outputs |-> <<>>, change |-> 0, fee |-> 0,
   err |-> "none", spentInTxid |-> NoTxid, conflicts |-> <<>>]

Init ==
  /\ now = 0
  /\ ticks = 0
  /\ hasKey \in BOOLEAN
  /\ phase = "startup"
  /\ crashes = 0
  /\ reservedUtxos = EmptyMap
  /\ spentUtxos = EmptyMap
  /\ pendingChangeUtxos = EmptyMap
  /\ op = [o \in Ops |-> IdleOp]
  /\ netTxs = {}
  /\ broadcastOk = {}
  /\ feeRateCache = NoCache
  /\ vis = NoWait
  /\ exec = NoExec
  /\ pendingSwaps = EmptyMap
  /\ settlementLog = <<>>
  /\ runs = [r \in Runs |-> NoRun]

\* calls are numbered in the order they are made
CanStart(o) ==
  /\ phase = "running"
  /\ op[o].pc = "idle"
  /\ \A p \in Ops : p < o => op[p].pc # "idle"

\* the call returns: its arguments go, its outcome stays for the caller
Returned(me) == [me EXCEPT !.amount = 0, !.memoLen = 0, !.tmpl = 0]

Fail(o, base, e) == [op EXCEPT ![o] = Returned([base EXCEPT !.pc = "failed", !.err = e])]

\* getPendingSpends: the inputs of the pending transactions the indexer
\* shows (any part of what the network accepted), the empty set on error
PendingSpendSets == {UNION {tx.vin : tx \in T} : T \in SUBSET netTxs}

getPendingSpends_stale(listing, fetchOk) == UNION {tx.vin : tx \in listing}

\* getPendingSpends: the inputs of the listed mempool transactions; a
\* non-success status or a failed fetch gives the empty set
getPendingSpends(listing, fetchOk) ==
  IF fetchOk THEN UNION {tx.vin : tx \in listing} ELSE {}

\* an output of a transaction that pays the engine's own address
PaysSelf(out) == out.role \in {"change", "self"}

\* ------------------------------------------------------------------------
\* Selection-based builds, first turn: preconditions and cleanup, up to the
\* await of the three fetches
\* ------------------------------------------------------------------------
sendBitcoin_start(o, amountSats) ==
  /\ CanStart(o)
  /\ LET me == [IdleOp EXCEPT !.kind = "send", !.amount = amountSats]
     IN  IF ~hasKey
         THEN /\ op' = Fail(o, me, "NoCredential")
              /\ UNCHANGED reservedUtxos
         ELSE /\ reservedUtxos' = cleanupExpiredReservations(reservedUtxos, now)
              /\ op' = [op EXCEPT ![o] = [me EXCEPT !.pc = "fetching"]]
  /\ UNCHANGED <<now, ticks, hasKey, phase, crashes, spentUtxos,
                 pendingChangeUtxos, netTxs, broadcastOk>>

sendBitcoinWithMemo_start_lax(o, amountSats, memoLen) ==
  /\ CanStart(o)
  /\ LET me == [IdleOp EXCEPT !.kind = "memo", !.amount = amountSats, !.memoLen = memoLen]
     IN  IF ~hasKey
         THEN /\ op' = Fail(o, me, "NoCredential")
              /\ UNCHANGED reservedUtxos
         ELSE IF amountSats < THORCHAIN_BTC_DUST_THRESHOLD
         THEN /\ op' = Fail(o, me, "BelowBridgeMinimum")
              /\ UNCHANGED reservedUtxos
         ELSE IF memoLen > MAX_MEMO_BYTES + 1
         THEN /\ op' = Fail(o, me, "MemoTooLong")
              /\ UNCHANGED reservedUtxos
         ELSE /\ reservedUtxos' = cleanupExpiredReservations(reservedUtxos, now)
              /\ op' = [op EXCEPT ![o] = [me EXCEPT !.pc = "fetching"]]
  /\ UNCHANGED <<now, ticks, hasKey, phase, crashes, spentUtxos,
                 pendingChangeUtxos, netTxs, broadcastOk>>

sendBitcoinWithMemo_start(o, amountSats, memoLen) ==
  /\ CanStart(o)
  /\ LET me == [IdleOp EXCEPT !.kind = "memo", !.amount = amountSats, !.memoLen = memoLen]
     IN  IF ~hasKey
         THEN /\ op' = Fail(o, me, "NoCredential")
              /\ UNCHANGED reservedUtxos
         ELSE IF amountSats <= THORCHAIN_BTC_DUST_THRESHOLD
         THEN /\ op' = Fail(o, me, "BelowBridgeMinimum")
              /\ UNCHANGED reservedUtxos
         ELSE IF memoLen > MAX_MEMO_BYTES
         THEN /\ op' = Fail(o, me, "MemoTooLong")
              /\ UNCHANGED reservedUtxos
         ELSE /\ reservedUtxos' = cleanupExpiredReservations(reservedUtxos, now)
              /\ op' = [op EXCEPT ![o] = [me EXCEPT !.pc = "fetching"]]
  /\ UNCHANGED <<now, ticks, hasKey, phase, crashes, spentUtxos,
                 pendingChangeUtxos, netTxs, broadcastOk>>

buildTxFromRelayOutputs_start(o, tmpl) ==
  /\ CanStart(o)
  /\ LET me == [IdleOp EXCEPT !.kind = "relay", !.tmpl = tmpl,
                              !.amount = totalOutputValue(Templates[tmpl].outs)]
     IN  IF ~hasKey
         THEN /\ op' = Fail(o, me, "NoCredential")
              /\ UNCHANGED ledger
         ELSE /\ reservedUtxos' = cleanupExpiredReservations(reservedUtxos, now)
              /\ spentUtxos' = cleanupSpentUtxos(spentUtxos, now)
              /\ pendingChangeUtxos' = cleanupPendingChange(pendingChangeUtxos, spentUtxos, now)
              /\ op' = [op EXCEPT ![o] = [me EXCEPT !.pc = "fetching"]]
  /\ UNCHANGED <<now, ticks, hasKey, phase, crashes, netTxs, broadcastOk>>

\* ------------------------------------------------------------------------
\* Selection-based builds, second turn: from the resolution of the fetches
\* to the await of broadcastTx (filter, greedy selection, reserve, build,
\* sign, finalize: no suspension point in between)
\* ------------------------------------------------------------------------

plannedOutputs_one(me) == 1

\* regular (non OP_RETURN) outputs the fee is planned for
plannedOutputs(me) ==
  IF me.kind = "relay" THEN numRegularOutputs(Templates[me.tmpl].outs) ELSE 2

plannedOpReturnSize(me) ==
  CASE me.kind = "send"  -> 0
    [] me.kind = "memo"  -> memoOpReturnSize(me.memoLen)
    [] me.kind = "relay" -> relayOpReturnSize(Templates[me.tmpl].outs)

selectionPlan_noCheck(me, available, feeRate) ==
  LET g     == greedySelect(sortedUtxos(available), me.amount, feeRate,
                            plannedOutputs(me), plannedOpReturnSize(me))
      vsize == calcVsize(Len(g.selected), plannedOutputs(me), plannedOpReturnSize(me))
      fee   == feeRate * vsize
  IN  [selected   |-> g.selected,
       totalInput |-> g.totalInput,
       vsize      |-> vsize,
       fee        |-> fee,
       ok         |-> TRUE,
       change     |-> g.totalInput - me.amount - fee]

\* selection, final fee and change of one build
selectionPlan(me, available, feeRate) ==
  LET g     == greedySelect(sortedUtxos(available), me.amount, feeRate,
                            plannedOutputs(me), plannedOpReturnSize(me))
      vsize == calcVsize(Len(g.selected), plannedOutputs(me), plannedOpReturnSize(me))
      fee   == feeRate * vsize
  IN  [selected   |-> g.selected,
       totalInput |-> g.totalInput,
       vsize      |-> vsize,
       fee        |-> fee,
       ok         |-> ~(g.totalInput < me.amount + fee),
       change     |-> g.totalInput - me.amount - fee]

\* the Error a build throws when selection fails: its kind and the numbers
\* its message carries (sendBitcoin alone reports the counts, and only when
\* nothing is available)
thrownError(me, allUtxos, pendingSpends, res, sp, t, feeRate) ==
  LET avail == availableUtxos(allUtxos, pendingSpends, res, sp, t)
      plan  == selectionPlan(me, avail, feeRate)
      none  == [err |-> "none", carries |-> {}, have |-> 0, need |-> 0,
                total |-> 0, pending |-> 0, reserved |-> 0, spent |-> 0]
  IN  IF me.kind = "send" /\ allUtxos = {}
      THEN [none EXCEPT !.err = "NoUtxosFound"]
      ELSE IF avail = {}
      THEN IF me.kind = "send"
           THEN [none EXCEPT
                   !.err      = "NoAvailableUtxos",
                   !.carries  = {"total", "pending", "reserved", "spent"},
                   !.total    = Cardinality(allUtxos),
                   !.pending  = Cardinality({u \in allUtxos : utxoKey(u) \in pendingSpends}),
                   !.reserved = Cardinality({u \in allUtxos : isUtxoReserved(res, utxoKey(u), t)}),
                   !.spent    = Cardinality({u \in allUtxos : isUtxoSpentByUs(sp, utxoKey(u), t)})]
           ELSE [none EXCEPT !.err = "NoAvailableUtxos"]
      ELSE IF ~plan.ok
      THEN [none EXCEPT !.err = "InsufficientFunds", !.carries = {"have", "need"},
                        !.have = plan.totalInput, !.need = me.amount + plan.fee]
      ELSE none

changeOutput(change) ==
  IF change > DUST_THRESHOLD THEN << [role |-> "change", value |-> change] >> ELSE <<>>

builtOutputs_memoSecond(me, change) ==
  CASE me.kind = "send"  ->
         << [role |-> "recipient", value |-> me.amount] >> \o changeOutput(change)
    [] me.kind = "memo"  ->
         << [role |-> "recipient", value |-> me.amount], [role |-> "opret", value |-> 0] >>
            \o changeOutput(change)
    [] me.kind = "relay" ->
         relayEmitted(Templates[me.tmpl].outs) \o changeOutput(change)

\* the outputs in the order psbt.addOutput is called
builtOutputs(me, change) ==
  CASE me.kind = "send"  ->
         << [role |-> "recipient", value |-> me.amount] >> \o changeOutput(change)
    [] me.kind = "memo"  ->
         << [role |-> "recipient", value |-> me.amount] >> \o changeOutput(change)
            \o << [role |-> "opret", value |-> 0] >>
    [] me.kind = "relay" ->
         relayEmitted(Templates[me.tmpl].outs) \o changeOutput(change)

changeVout_one(kind, outputs) == 1

\* the vout index handed to recordPendingChange
changeVout(kind, outputs) ==
  IF kind = "relay" THEN Len(outputs) - 1 ELSE 1

KeysOf(utxoSeq) == [i \in 1..Len(utxoSeq) |-> utxoKey(utxoSeq[i])]

selectAndBuild(o, allUtxos, pendingSpends, feeRate, signOk) ==
  /\ op[o].pc = "fetching"
  /\ op[o].kind \in {"send", "memo", "relay"}
  /\ LET me    == op[o]
         avail == availableUtxos(allUtxos, pendingSpends, reservedUtxos, spentUtxos, now)
         res1  == lazyExpireReserved(reservedUtxos,
                                     reservedProbes(me.kind, allUtxos, pendingSpends), now)
         sp1   == lazyExpireSpent(spentUtxos,
                                  spentProbes(me.kind, allUtxos, pendingSpends, reservedUtxos, now), now)
         plan  == selectionPlan(me, avail, feeRate)
         ins   == KeysOf(plan.selected)
         built == [me EXCEPT !.inputs = ins, !.fee = plan.fee, !.change = plan.change,
                             !.outputs = builtOutputs(me, plan.change)]
     IN  /\ spentUtxos' = sp1
         /\ IF me.kind = "send" /\ allUtxos = {}
            THEN /\ op' = Fail(o, me, "NoUtxosFound")
                 /\ reservedUtxos' = res1
            ELSE IF avail = {}
            THEN /\ op' = Fail(o, me, "NoAvailableUtxos")
                 /\ reservedUtxos' = res1
            ELSE IF ~plan.ok
            THEN /\ op' = Fail(o, me, "InsufficientFunds")
                 /\ reservedUtxos' = res1
            ELSE IF ~signOk
            THEN /\ op' = Fail(o, built, "SignInputFailed")
                 /\ reservedUtxos' = releaseUtxos(reserveUtxos(res1, SeqRange(ins), now), SeqRange(ins))
            ELSE /\ op' = [op EXCEPT ![o] = [built EXCEPT !.pc = "broadcasting"]]
                 /\ reservedUtxos' = reserveUtxos(res1, SeqRange(ins), now)
  /\ UNCHANGED <<now, ticks, hasKey, phase, crashes, pendingChangeUtxos, netTxs, broadcastOk>>

\* ------------------------------------------------------------------------
\* broadcastTx: the endpoint's side, and the turn that runs when the call
\* returns or throws
\* ------------------------------------------------------------------------
SpentOnNetwork == UNION {tx.vin : tx \in netTxs}

\* POST /tx answered 200: the transaction is in the network's mempool
networkAccepts(o) ==
  /\ op[o].pc = "broadcasting"
  /\ SeqRange(op[o].inputs) \cap SpentOnNetwork = {}
  /\ netTxs' = netTxs \cup {[txid |-> o, vin |-> SeqRange(op[o].inputs), vout |-> op[o].outputs]}
  /\ op' = [op EXCEPT ![o].pc = "accepted"]
  /\ UNCHANGED <<now, ticks, hasKey, phase, crashes, ledger, broadcastOk>>

\* change bookkeeping after recordSpentUtxos: the selection-based builds
\* record one change at changeVout, sign-as-given records every output that
\* pays the engine's own address
recordChanges(pch, me, txid) ==
  IF me.kind = "psbt"
  THEN LET RECURSIVE Scan(_, _)
           Scan(i, m) ==
             IF i > Len(me.outputs) THEN m
             ELSE Scan(i + 1, IF PaysSelf(me.outputs[i])
                              THEN recordPendingChange(m, txid, i - 1, me.outputs[i].value)
                              ELSE m)
       IN  Scan(1, pch)
  ELSE IF me.change > DUST_THRESHOLD
       THEN recordPendingChange(pch, txid, changeVout(me.kind, me.outputs), me.change)
       ELSE pch

\* broadcastTx returned the txid
broadcastReturns(o) ==
  /\ op[o].pc = "accepted"
  /\ LET ins == SeqRange(op[o].inputs)
     IN  /\ spentUtxos' = recordSpentUtxos(spentUtxos, ins, o, now)
         /\ reservedUtxos' = recordSpentUnreserve(reservedUtxos, ins)
         /\ pendingChangeUtxos' = recordChanges(pendingChangeUtxos, op[o], o)
         /\ broadcastOk' = broadcastOk \cup ins
  /\ op' = [op EXCEPT ![o] = Returned([op[o] EXCEPT !.pc = "done"])]
  /\ UNCHANGED <<now, ticks, hasKey, phase, crashes, netTxs>>

\* broadcastTx threw although the endpoint accepted: res.text() rejected
broadcastResponseLost(o) ==
  /\ op[o].pc = "accepted"
  /\ reservedUtxos' = releaseUtxos(reservedUtxos, SeqRange(op[o].inputs))
  /\ op' = Fail(o, op[o], "ResponseReadFailed")
  /\ UNCHANGED <<now, ticks, hasKey, phase, crashes, spentUtxos, pendingChangeUtxos,
                 netTxs, broadcastOk>>

\* broadcastTx threw and the endpoint did not accept: a non-200 status
\* ("Broadcast failed: ...")
broadcastFails(o, e) ==
  /\ op[o].pc = "broadcasting"
  /\ reservedUtxos' = releaseUtxos(reservedUtxos, SeqRange(op[o].inputs))
  /\ op' = Fail(o, op[o], e)
  /\ UNCHANGED <<now, ticks, hasKey, phase, crashes, spentUtxos, pendingChangeUtxos,
                 netTxs, broadcastOk>>

\* ------------------------------------------------------------------------
\* Sign-as-given: validatePsbtUtxos and signAndBroadcastPsbt
\* ------------------------------------------------------------------------

\* the local pass of validatePsbtUtxos over the inputs in PSBT order:
\* spent_locally first, then reserved, at most one conflict per input
localConflicts(ins, res, sp, t) ==
  LET RECURSIVE Scan(_)
      Scan(i) ==
        IF i > Len(ins) THEN <<>>
        ELSE IF isUtxoSpentByUs(sp, ins[i], t)
             THEN << [key |-> ins[i], reason |-> "spent_locally",
                      spentInTxid |-> sp[ins[i]].spentInTxid] >> \o Scan(i + 1)
        ELSE IF isUtxoReserved(res, ins[i], t)
             THEN << [key |-> ins[i], reason |-> "reserved",
                      spentInTxid |-> NoTxid] >> \o Scan(i + 1)
        ELSE Scan(i + 1)
  IN  Scan(1)

\* the fallback pass against getPendingSpends
mempoolConflicts(ins, pendingSpends) ==
  LET RECURSIVE Scan(_)
      Scan(i) ==
        IF i > Len(ins) THEN <<>>
        ELSE IF ins[i] \in pendingSpends
             THEN << [key |-> ins[i], reason |-> "mempool",
                      spentInTxid |-> NoTxid] >> \o Scan(i + 1)
        ELSE Scan(i + 1)
  IN  Scan(1)

conflictSpentInTxid_none(conflicts) == NoTxid

\* conflicts.find(c => c.spentInTxid)?.spentInTxid
conflictSpentInTxid(conflicts) ==
  LET hits == {i \in 1..Len(conflicts) : conflicts[i].spentInTxid # NoTxid}
  IN  IF hits = {} THEN NoTxid
      ELSE conflicts[CHOOSE i \in hits : \A j \in hits : i <= j].spentInTxid

templateOutputs(tmpl) ==
  LET outs == Templates[tmpl].outs
  IN  [i \in 1..Len(outs) |-> [role |-> outs[i].kind, value |-> outs[i].value]]

\* first turn: cleanup and the local pass; with a local conflict the
\* validation returns without a network call and the caller throws
signAndBroadcastPsbt_start(o, tmpl) ==
  /\ CanStart(o)
  /\ LET me   == [IdleOp EXCEPT !.kind = "psbt", !.tmpl = tmpl,
                                !.inputs = Templates[tmpl].ins,
                                !.outputs = templateOutputs(tmpl)]
         res1 == cleanupExpiredReservations(reservedUtxos, now)
         sp1  == cleanupSpentUtxos(spentUtxos, now)
         pch1 == cleanupPendingChange(pendingChangeUtxos, spentUtxos, now)
         cs   == localConflicts(me.inputs, res1, sp1, now)
     IN  IF ~hasKey
         THEN /\ op' = Fail(o, me, "NoCredential")
              /\ UNCHANGED ledger
         ELSE /\ reservedUtxos' = res1
              /\ spentUtxos' = sp1
              /\ pendingChangeUtxos' = pch1
              /\ IF Len(cs) > 0
                 THEN op' = Fail(o, [me EXCEPT !.conflicts = cs,
                                               !.spentInTxid = conflictSpentInTxid(cs)],
                                 "UtxoConflict")
                 ELSE op' = [op EXCEPT ![o] = [me EXCEPT !.pc = "validating"]]
  /\ UNCHANGED <<now, ticks, hasKey, phase, crashes, netTxs, broadcastOk>>

\* second turn: getPendingSpends has answered; conflicts throw, otherwise
\* reserve, sign, finalize and call broadcastTx
signAndBroadcastPsbt_resume(o, pendingSpends, finalizeOk) ==
  /\ op[o].pc = "validating"
  /\ LET me  == op[o]
         cs  == mempoolConflicts(me.inputs, pendingSpends)
         ins == SeqRange(me.inputs)
     IN  IF Len(cs) > 0
         THEN /\ op' = Fail(o, [me EXCEPT !.conflicts = cs,
                                          !.spentInTxid = conflictSpentInTxid(cs)],
                            "UtxoConflict")
              /\ UNCHANGED reservedUtxos
         ELSE IF ~finalizeOk
         THEN /\ op' = Fail(o, me, "FinalizeFailed")
              /\ reservedUtxos' = releaseUtxos(reserveUtxos(reservedUtxos, ins, now), ins)
         ELSE /\ op' = [op EXCEPT ![o].pc = "broadcasting"]
              /\ reservedUtxos' = reserveUtxos(reservedUtxos, ins, now)
  /\ UNCHANGED <<now, ticks, hasKey, phase, crashes, spentUtxos, pendingChangeUtxos,
                 netTxs, broadcastOk>>

\* ------------------------------------------------------------------------
\* Recovery from the mempool listing
\* ------------------------------------------------------------------------

recoverSpent_none(sp, listing, t) == sp

recoverSpent_inputTxid(sp, listing, t) ==
  LET ks == UNION {tx.vin : tx \in listing}
  IN  [k \in (DOMAIN sp) \cup ks |->
         IF k \in ks THEN [spentInTxid |-> k[1], spentAt |-> t] ELSE sp[k]]

\* every input of every listed transaction: spentUtxos.set(key, ...)
recoverSpent(sp, listing, t) ==
  LET ks == UNION {tx.vin : tx \in listing}
      TxOf(k) == CHOOSE tx \in listing : k \in tx.vin
  IN  [k \in (DOMAIN sp) \cup ks |->
         IF k \in ks THEN [spentInTxid |-> TxOf(k).txid, spentAt |-> t] ELSE sp[k]]

recoverChange_none(pch, listing) == pch

\* every output of a listed transaction that pays our address
recoverChange(pch, listing) ==
  LET cs == UNION {{<<tx.txid, i - 1>> : i \in {j \in 1..Len(tx.vout) : PaysSelf(tx.vout[j])}} :
                     tx \in listing}
      Out(c) == (CHOOSE tx \in listing : tx.txid = c[1]).vout[c[2] + 1]
  IN  [c \in (DOMAIN pch) \cup cs |->
         IF c \in cs THEN [txid |-> c[1], vout |-> c[2], value |-> Out(c).value] ELSE pch[c]]

\* the counts initializeUtxoStateFromMempool returns
recoveryCounts(key, listing, fetchOk) ==
  LET RECURSIVE Inputs(_)
      Inputs(T) == IF T = {} THEN 0
                   ELSE LET tx == CHOOSE x \in T : TRUE
                        IN  Cardinality(tx.vin) + Inputs(T \ {tx})
  IN  IF key /\ fetchOk /\ listing # {}
      THEN [pendingTxCount |-> Cardinality(listing), spentUtxoCount |-> Inputs(listing)]
      ELSE [pendingTxCount |-> 0, spentUtxoCount |-> 0]

initializeUtxoStateFromMempool_unreserve(listing, fetchOk) ==
  /\ listing \in SUBSET netTxs
  /\ IF hasKey /\ fetchOk /\ listing # {}
     THEN /\ spentUtxos' = recoverSpent(spentUtxos, listing, now)
          /\ pendingChangeUtxos' = recoverChange(pendingChangeUtxos, listing)
          /\ reservedUtxos' = recordSpentUnreserve(reservedUtxos, UNION {tx.vin : tx \in listing})
     ELSE UNCHANGED <<spentUtxos, pendingChangeUtxos, reservedUtxos>>
  /\ UNCHANGED <<now, ticks, hasKey, crashes, op, netTxs, broadcastOk>>

\* initializeUtxoStateFromMempool: nothing is touched without a key, on a
\* failed fetch or on an empty listing
initializeUtxoStateFromMempool(listing, fetchOk) ==
  /\ listing \in SUBSET netTxs
  /\ IF hasKey /\ fetchOk /\ listing # {}
     THEN /\ spentUtxos' = recoverSpent(spentUtxos, listing, now)
          /\ pendingChangeUtxos' = recoverChange(pendingChangeUtxos, listing)
     ELSE UNCHANGED <<spentUtxos, pendingChangeUtxos>>
  /\ UNCHANGED <<now, ticks, hasKey, crashes, reservedUtxos, op, netTxs, broadcastOk>>

\* main() awaits the recovery before the first swap cycle
startupRecovery(listing, fetchOk) ==
  /\ phase = "startup"
  /\ initializeUtxoStateFromMempool(listing, fetchOk)
  /\ phase' = "running"

\* the Relay retry loop refreshes the ledger between two attempts, after an
\* attempt whose broadcast was rejected for missing or spent inputs
refreshRecovery(listing, fetchOk) ==
  /\ phase = "running"
  /\ \E o \in Ops : /\ op[o].pc = "failed"
                     /\ op[o].kind = "relay"
                     /\ op[o].err = "BroadcastRejected"
  /\ initializeUtxoStateFromMempool(listing, fetchOk)
  /\ phase' = phase

\* ------------------------------------------------------------------------
\* Environment: process restart and the clock
\* ------------------------------------------------------------------------
crash ==
  /\ phase = "running"
  /\ crashes < MaxCrashes
  /\ crashes' = crashes + 1
  /\ phase' = "startup"
  /\ reservedUtxos' = EmptyMap
  /\ spentUtxos' = EmptyMap
  /\ pendingChangeUtxos' = EmptyMap
  /\ broadcastOk' = {}
  /\ op' = [o \in Ops |->
              IF op[o].pc \in {"fetching", "validating", "broadcasting", "accepted"}
              THEN [IdleOp EXCEPT !.pc = "crashed", !.kind = op[o].kind] ELSE op[o]]
  /\ UNCHANGED <<now, ticks, hasKey, netTxs>>

tick(d) ==
  /\ ticks < MaxTicks
  /\ ticks' = ticks + 1
  /\ now' = now + d
  /\ UNCHANGED <<hasKey, phase, crashes, ledger, op, netTxs, broadcastOk>>

\* the second turn of a selection-based build with the fee oracle's part
\* in it: the rate is the tier's rate of what getRecommendedFees returns
selectAndBuildPriced(o, allUtxos, pendingSpends, resp, tier, signOk) ==
  LET fees == getRecommendedFees(feeRateCache, resp, now)
  IN  /\ selectAndBuild(o, allUtxos, pendingSpends, getFeeRateForTier(fees.rates, tier), signOk)
      /\ feeRateCache' = fees.cache
      /\ UNCHANGED callers

\* here the fee endpoint is down and the callers use the default tier
Next ==
  \/ \E o \in Ops, a \in Amounts :
       sendBitcoin_start(o, a) /\ UNCHANGED side
  \/ \E o \in Ops, a \in Amounts, m \in MemoLens :
       sendBitcoinWithMemo_start(o, a, m) /\ UNCHANGED side
  \/ \E o \in Ops, t \in TemplateIds :
       buildTxFromRelayOutputs_start(o, t) /\ UNCHANGED side
  \/ \E o \in Ops, all \in UtxoListings, l \in SUBSET netTxs, pok \in BOOLEAN, ok \in BOOLEAN :
       selectAndBuildPriced(o, all, getPendingSpends(l, pok), FeeFetchFailed, "normal", ok)
  \/ \E o \in Ops : networkAccepts(o) /\ UNCHANGED side
  \/ \E o \in Ops : broadcastReturns(o) /\ UNCHANGED side
  \/ \E o \in Ops : broadcastResponseLost(o) /\ UNCHANGED side
  \/ \E o \in Ops : broadcastFails(o, "BroadcastRejected") /\ UNCHANGED side
  \/ \E o \in Ops, t \in TemplateIds :
       signAndBroadcastPsbt_start(o, t) /\ UNCHANGED side
  \/ \E o \in Ops, l \in SUBSET netTxs, pok \in BOOLEAN, ok \in BOOLEAN :
       signAndBroadcastPsbt_resume(o, getPendingSpends(l, pok), ok) /\ UNCHANGED side
  \/ \E l \in SUBSET netTxs, ok \in BOOLEAN :
       startupRecovery(l, ok) /\ UNCHANGED side
  \/ \E l \in SUBSET netTxs, ok \in BOOLEAN :
       refreshRecovery(l, ok) /\ UNCHANGED side
  \/ \E d \in TimeSteps : tick(d) /\ UNCHANGED side

\* one lifetime of the process
Spec == Init /\ [][Next]_vars

NextRestart ==
  \/ Next
  \/ crash /\ feeRateCache' = NoCache /\ UNCHANGED callers

\* the process may die and be started again
SpecRestart == Init /\ [][NextRestart]_vars

\* ------------------------------------------------------------------------
\* Builds made one after the other, as the swap loop makes them, over the
\* full range of amounts, memos, listings, fee responses and tiers
\* ------------------------------------------------------------------------
BuildAmounts == {10000, 10001, 48043, 48044}
BuildMemoLens == {80, 81}
\* the clock advances to the last instant the fee cache is fresh, or to the
\* first at which it is stale
BuildTimeSteps == {FEE_RATE_CACHE_TTL - 1, FEE_RATE_CACHE_TTL}

\* no other call is between its first turn and its return
Sequential(o) == \A p \in Ops \ {o} : op[p].pc \in {"idle", "done", "failed"}

NextBuild ==
  \/ startupRecovery({}, TRUE) /\ UNCHANGED side
  \/ \E o \in Ops, a \in BuildAmounts \ {THORCHAIN_BTC_DUST_THRESHOLD} :
       Sequential(o) /\ sendBitcoin_start(o, a) /\ UNCHANGED side
  \/ \E o \in Ops, a \in BuildAmounts, m \in BuildMemoLens :
       Sequential(o) /\ sendBitcoinWithMemo_start(o, a, m) /\ UNCHANGED side
  \/ \E o \in Ops, t \in TemplateIds :
       Sequential(o) /\ buildTxFromRelayOutputs_start(o, t) /\ UNCHANGED side
  \/ \E o \in Ops, all \in UtxoListings, resp \in FeeResponses, tier \in FeeTiers :
       selectAndBuildPriced(o, all, {}, resp, tier, TRUE)
  \/ \E o \in Ops : networkAccepts(o) /\ UNCHANGED side
  \/ \E o \in Ops : broadcastReturns(o) /\ UNCHANGED side
  \/ \E d \in BuildTimeSteps : tick(d) /\ UNCHANGED side

SpecBuild == Init /\ [][NextBuild]_vars

\* ------------------------------------------------------------------------
\* Vocabulary of the properties
\* ------------------------------------------------------------------------
SelectionKinds == {"send", "memo", "relay"}

InFlightReserved(o) == op[o].pc \in {"broadcasting", "accepted"}

InputsOf(o) == SeqRange(op[o].inputs)

PreReservationErrors ==
  {"NoCredential", "MemoTooLong", "BelowBridgeMinimum", "NoUtxosFound",
   "NoAvailableUtxos", "InsufficientFunds"}

PostReservationErrors ==
  {"SignInputFailed", "FinalizeFailed", "BroadcastRejected", "ResponseReadFailed"}

\* the call o returns with an error in this step
FailsNow(o) == op[o].pc # "failed" /\ op'[o].pc = "failed"

\* a map lost none of its entries that satisfy Live and gained or changed none
KeepsLive(m, m2, Live(_)) ==
  /\ DOMAIN m2 \subseteq DOMAIN m
  /\ \A k \in DOMAIN m2 : m2[k] = m[k]
  /\ \A k \in DOMAIN m : Live(k) => k \in DOMAIN m2

\* ------------------------------------------------------------------------
\* C1: a selection-based build never selects a key on which a live
\* Reservation exists: in the turn in which a build chooses its inputs, no
\* chosen key was live-reserved when the turn began.
\* ------------------------------------------------------------------------
C1_NoSelectionOfReserved ==
  [][\A o \in Ops :
       (op[o].pc = "fetching" /\ op'[o].inputs # <<>>)
         => \A k \in SeqRange(op'[o].inputs) : ~ReservationLive(reservedUtxos, k, now)]_vars

\* two selection-based builds in flight at once, on disjoint inputs, all of
\* them live-reserved
C1_Witness ==
  \E o1, o2 \in Ops :
    /\ o1 # o2
    /\ op[o1].kind \in SelectionKinds /\ op[o2].kind \in SelectionKinds
    /\ InFlightReserved(o1) /\ InFlightReserved(o2)
    /\ InputsOf(o1) \cap InputsOf(o2) = {}
    /\ \A k \in InputsOf(o1) \cup InputsOf(o2) : ReservationLive(reservedUtxos, k, now)

\* ------------------------------------------------------------------------
\* C2: when sign-as-given reserves the inputs of the PSBT, none of them is
\* live-reserved or recorded Spent by another operation.
\* ------------------------------------------------------------------------
C2_ReserveInTurnOfCheck ==
  [][\A o \in Ops :
       (op[o].pc = "validating" /\ op'[o].pc = "broadcasting")
         => \A k \in InputsOf(o) :
              /\ ~ReservationLive(reservedUtxos, k, now)
              /\ ~SpendLive(spentUtxos, k, now)]_vars

\* ------------------------------------------------------------------------
\* C3: no key has a live Reservation and a live Spend record at once.
\* ------------------------------------------------------------------------
C3_ReservedXorSpent ==
  \A k \in Keys :
    ~(ReservationLive(reservedUtxos, k, now) /\ SpendLive(spentUtxos, k, now))

\* ------------------------------------------------------------------------
\* C4: a failure at or after the submission to the broadcast endpoint
\* never takes a Reservation off the inputs of the operation.
\* ------------------------------------------------------------------------
C4_NoReleaseAfterSubmission ==
  [][\A o \in Ops :
       (InFlightReserved(o) /\ op'[o].pc = "failed")
         => \A k \in InputsOf(o) :
              ReservationLive(reservedUtxos, k, now) => ReservationLive(reservedUtxos', k, now')]_vars

C8_SpentOnlyAfterBroadcastReturn ==
  \A k \in DOMAIN spentUtxos : k \in broadcastOk

\* C8 as amended: a key is recorded Spent only if the broadcast endpoint has
\* accepted a transaction that consumes it, and the record names that
\* transaction (recorded when the broadcast call returns, or by recovery
\* from the mempool listing).
C8_SpentOnlyIfAccepted ==
  \A k \in DOMAIN spentUtxos :
    \E tx \in netTxs : tx.txid = spentUtxos[k].spentInTxid /\ k \in tx.vin

\* a Spend record that recovery wrote: no broadcast call of this process has
\* returned for its key
C8_Witness ==
  \E k \in DOMAIN spentUtxos :
    /\ k \notin broadcastOk
    /\ \E tx \in netTxs : tx.txid = spentUtxos[k].spentInTxid /\ k \in tx.vin

\* ------------------------------------------------------------------------
\* C9: a selection-based build that fails at a precondition or at selection
\* has, in each of its turns, added no Reservation, Spend record or
\* PendingChange, removed no live entry and issued no broadcast.
\* ------------------------------------------------------------------------
C9_Turn(o) ==
  /\ op'[o].kind \in SelectionKinds
  /\ \/ op[o].pc = "idle" /\ op'[o].pc = "fetching"
     \/ FailsNow(o) /\ op'[o].err \in PreReservationErrors

C9_SelectionFailureNeedsNoRollback ==
  [][\A o \in Ops :
       C9_Turn(o)
         => /\ LET Live(k) == ReservationLive(reservedUtxos, k, now)
               IN  KeepsLive(reservedUtxos, reservedUtxos', Live)
            /\ LET Live(k) == SpendLive(spentUtxos, k, now)
               IN  KeepsLive(spentUtxos, spentUtxos', Live)
            /\ DOMAIN pendingChangeUtxos' \subseteq DOMAIN pendingChangeUtxos
            /\ netTxs' = netTxs
            /\ op'[o].pc # "broadcasting"]_vars

\* a build has failed at selection while live and expired entries of other
\* operations were in the ledger
C9_Witness ==
  \E o \in Ops :
    /\ op[o].pc = "failed"
    /\ op[o].kind \in SelectionKinds
    /\ op[o].err \in {"NoAvailableUtxos", "InsufficientFunds"}
    /\ \E k \in DOMAIN reservedUtxos : ReservationLive(reservedUtxos, k, now)

\* ------------------------------------------------------------------------
\* C10: sign-as-given throws UtxoConflict exactly when the validation finds
\* a conflict (an input live-Spent or live-reserved locally, or, without a
\* local conflict, an input in the external pending-spend set); the error
\* carries the spending txid of the first spent_locally conflict when there
\* is one; the inputs are then neither reserved nor broadcast.
\* ------------------------------------------------------------------------
C10_LocallySpent(o) == {k \in SeqRange(op'[o].inputs) : SpendLive(spentUtxos, k, now)}

C10_LocallyReserved(o) == {k \in SeqRange(op'[o].inputs) : ReservationLive(reservedUtxos, k, now)}

C10_UtxoConflict ==
  [][/\ \A o \in Ops, t \in TemplateIds :
          (hasKey /\ signAndBroadcastPsbt_start(o, t))
            => /\ (op'[o].err = "UtxoConflict")
                    <=> (C10_LocallySpent(o) \cup C10_LocallyReserved(o) # {})
               /\ (op'[o].err # "UtxoConflict") => op'[o].pc = "validating"
               /\ C10_LocallySpent(o) # {}
                    => op'[o].spentInTxid \in {spentUtxos[k].spentInTxid : k \in C10_LocallySpent(o)}
     /\ \A o \in Ops, ps \in PendingSpendSets, ok \in BOOLEAN :
          signAndBroadcastPsbt_resume(o, ps, ok)
            => (op'[o].err = "UtxoConflict") <=> (InputsOf(o) \cap ps # {})
     /\ \A o \in Ops :
          (FailsNow(o) /\ op'[o].err = "UtxoConflict")
            => /\ Len(op'[o].conflicts) > 0
               /\ \A k \in SeqRange(op'[o].inputs) :
                    k \in DOMAIN reservedUtxos' => reservedUtxos'[k] = reservedUtxos[k]
               /\ netTxs' = netTxs]_vars

\* a PSBT was refused because another call had spent one of its inputs: the
\* error names the spending transaction
C10_Witness ==
  \E o \in Ops :
    /\ op[o].kind = "psbt"
    /\ op[o].pc = "failed"
    /\ op[o].err = "UtxoConflict"
    /\ op[o].spentInTxid # NoTxid
    /\ \E c \in SeqRange(op[o].conflicts) :
         c.reason = "spent_locally" /\ c.spentInTxid = op[o].spentInTxid

\* ------------------------------------------------------------------------
\* C11: when sign-as-given throws UtxoConflict, every input has at most one
\* reason; an input with a live Spend record is never reported "reserved" or
\* "mempool", an input with a live Reservation is never reported "mempool",
\* and "mempool" is reported only when no input of the PSBT has a local
\* conflict.
\* ------------------------------------------------------------------------
C11_LocalPriority ==
  [][\A o \in Ops :
       (FailsNow(o) /\ op'[o].err = "UtxoConflict")
         => LET cs    == op'[o].conflicts
                local == {k \in SeqRange(op'[o].inputs) :
                            SpendLive(spentUtxos, k, now) \/ ReservationLive(reservedUtxos, k, now)}
            IN  /\ \A i, j \in 1..Len(cs) : cs[i].key = cs[j].key => i = j
                /\ \A i \in 1..Len(cs) :
                     /\ SpendLive(spentUtxos, cs[i].key, now) => cs[i].reason = "spent_locally"
                     /\ ReservationLive(reservedUtxos, cs[i].key, now) => cs[i].reason # "mempool"
                /\ (\E i \in 1..Len(cs) : cs[i].reason = "mempool") => local = {}]_vars

\* ------------------------------------------------------------------------
\* C12: a key reserved at t0 is unavailable to every selection at t0 and at
\* t0 + 60 s, and, if the map is not touched and no live Spend record covers
\* it, it is a candidate again at t0 + 60 s + 1 ms, its entry being deleted
\* by the check; in every reachable state a reservation that has not
\* reached its expiry keeps its key out of every candidate set.
\* ------------------------------------------------------------------------
C12_ReservationTTL ==
  /\ [][\A o \in Ops :
          (op[o].pc \in {"fetching", "validating"} /\ op'[o].pc = "broadcasting")
            => \A k \in SeqRange(op'[o].inputs), all \in UtxoListings, ps \in PendingSpendSets :
                 /\ \A t \in {now, now + 60000} :
                      k \notin {utxoKey(u) : u \in availableUtxos(all, ps, reservedUtxos', spentUtxos', t)}
                 /\ LET t == now + 60001
                    IN  (/\ k \in {utxoKey(u) : u \in all}
                         /\ k \notin ps
                         /\ ~SpendLive(spentUtxos', k, t))
                          => /\ k \in {utxoKey(u) : u \in availableUtxos(all, ps, reservedUtxos', spentUtxos', t)}
                             /\ k \notin DOMAIN lazyExpireReserved(reservedUtxos', {k}, t)]_vars
  /\ [](\A k \in DOMAIN reservedUtxos :
          now <= reservedUtxos[k].expiresAt
            => \A all \in UtxoListings :
                 k \notin {utxoKey(u) : u \in availableUtxos(all, {}, reservedUtxos, spentUtxos, now)})

\* a build holds a key whose earlier reservation, taken by a build that is
\* still in flight, had expired
C12_Witness ==
  \E o1, o2 \in Ops :
    /\ o1 < o2
    /\ InFlightReserved(o1) /\ InFlightReserved(o2)
    /\ op[o2].kind \in SelectionKinds
    /\ InputsOf(o1) \cap InputsOf(o2) # {}
    /\ now > UTXO_RESERVATION_TTL

\* ------------------------------------------------------------------------
\* C13: a Spend record written at time t is still there, reported by
\* isUtxoSpentByUs and excluded from every candidate set, after every step
\* that ends no later than t + 10 min: release, expiry or cleanup of
\* reservations and failed builds do not remove it.
\* ------------------------------------------------------------------------
C13_SpendWindow ==
  [][\A k \in DOMAIN spentUtxos :
       (now' <= spentUtxos[k].spentAt + 600000)
         => /\ k \in DOMAIN spentUtxos'
            /\ isUtxoSpentByUs(spentUtxos', k, now')
            /\ isUtxoSpentByUs(spentUtxos', k, spentUtxos[k].spentAt + 600000)
            /\ \A all \in UtxoListings :
                 k \notin {utxoKey(u) : u \in availableUtxos(all, {}, reservedUtxos', spentUtxos', now')}]_vars

\* a sign-as-given call failed after reserving, and released, a key that
\* another call had recorded Spent: the Spend record is still live
C13_Witness ==
  \E o \in Ops, k \in Keys :
    /\ op[o].pc = "failed"
    /\ op[o].err \in PostReservationErrors
    /\ k \in InputsOf(o)
    /\ SpendLive(spentUtxos, k, now)
    /\ spentUtxos[k].spentInTxid # o
    /\ k \notin DOMAIN reservedUtxos

\* ------------------------------------------------------------------------
\* C14: a build can select a recorded PendingChange output that the UTXO
\* listing does not report: when a PendingChange that is neither reserved,
\* Spent nor pending would, added to the candidates, make the selection
\* feasible, the build does not fail for lack of funds.
\* ------------------------------------------------------------------------
C14_ChainedChangeSelectable ==
  [][\A o \in Ops, all \in UtxoListings, ps \in PendingSpendSets, r \in FeeRateChoices :
       (/\ selectAndBuild(o, all, ps, r, TRUE)
        /\ \E c \in DOMAIN pendingChangeUtxos :
             /\ c \notin {utxoKey(u) : u \in all}
             /\ selectionPlan(op[o],
                              availableUtxos(all \cup {pendingChangeUtxos[c]}, ps,
                                             reservedUtxos, spentUtxos, now), r).ok)
         => op'[o].err \notin {"NoUtxosFound", "NoAvailableUtxos", "InsufficientFunds"}]_vars

\* ------------------------------------------------------------------------
\* C15: every input of a selection-based build is in the UTXO listing the
\* call received, and when the selection ran it was not in the reported
\* pending-spend set, had no live Reservation and no live Spend record.
\* ------------------------------------------------------------------------
C15_InputsFromAvailableListing ==
  [][\A o \in Ops, all \in UtxoListings, ps \in PendingSpendSets,
        r \in FeeRateChoices, ok \in BOOLEAN :
       selectAndBuild(o, all, ps, r, ok)
         => \A k \in SeqRange(op'[o].inputs) :
              /\ k \in {utxoKey(u) : u \in all}
              /\ k \notin ps
              /\ ~ReservationLive(reservedUtxos, k, now)
              /\ ~SpendLive(spentUtxos, k, now)]_vars

\* a build chose its inputs while a key of the wallet had a live Spend
\* record and the transaction spending it was pending: it chose other keys
C15_Witness ==
  \E o \in Ops, k \in Keys :
    /\ op[o].kind \in SelectionKinds
    /\ op[o].pc = "broadcasting"
    /\ SpendLive(spentUtxos, k, now)
    /\ k \in SpentOnNetwork
    /\ k \notin InputsOf(o)
    /\ spentUtxos[k].spentInTxid # o

\* ------------------------------------------------------------------------
\* Vocabulary of the properties on built transactions
\* ------------------------------------------------------------------------

\* the least integer not below 10.5 + 68 n + 31 m + s
VsizeFor(n, m, s) ==
  LET twice == 21 + 2 * (68 * n + 31 * m + s)
  IN  CHOOSE v \in (twice \div 2)..(twice \div 2 + 1) :
        2 * v >= twice /\ 2 * (v - 1) < twice

InputSum(me) == SumValues({UtxoOfKey(k) : k \in SeqRange(me.inputs)})

OutputSum(me) == SeqSum(me.outputs)

\* regular (non OP_RETURN) outputs of the transaction as built
EmittedRegular(me) == Cardinality({i \in 1..Len(me.outputs) : me.outputs[i].role # "opret"})

\* bytes the OP_RETURN outputs of the build add to the estimate
MemoOverhead(me) ==
  CASE me.kind = "send"  -> 0
    [] me.kind = "memo"  -> me.memoLen + 12
    [] me.kind = "relay" -> relayOpReturnSize(Templates[me.tmpl].outs)

\* the payment outputs the build keeps, plus one change output
CountedRegular(me) ==
  IF me.kind = "relay"
  THEN Cardinality({i \in 1..Len(Templates[me.tmpl].outs) :
                      Templates[me.tmpl].outs[i].kind \in {"pay", "raw"}}) + 1
  ELSE 2

\* the rate the oracle hands the build in this step
RateOf(resp, tier) ==
  getFeeRateForTier(getRecommendedFees(feeRateCache, resp, now).rates, tier)

\* the build o chose its inputs and built its transaction in this step
BuiltNow(o) == op[o].pc = "fetching" /\ op'[o].pc = "broadcasting"

\* ------------------------------------------------------------------------
\* C16 (as stated): the inputs of a build cover amount + fee, and the fee is
\* rate x ceil(10.5 + 68 inputs + 31 outputs + memo overhead) for the input
\* count and the regular-output count of the transaction built, also when
\* the change output is omitted.
\* ------------------------------------------------------------------------
C16_FeeForReturnedCounts ==
  [][\A o \in Ops, all \in UtxoListings, resp \in FeeResponses, tier \in FeeTiers :
       (BuiltNow(o) /\ selectAndBuildPriced(o, all, {}, resp, tier, TRUE))
         => /\ InputSum(op'[o]) >= op'[o].amount + op'[o].fee
            /\ op'[o].fee = RateOf(resp, tier)
                 * VsizeFor(Len(op'[o].inputs), EmittedRegular(op'[o]), MemoOverhead(op'[o]))]_vars

\* ------------------------------------------------------------------------
\* C16 (amended): whenever some set of candidates covers the amount and the
\* fee for its size, the build succeeds; the inputs chosen cover amount +
\* fee; the fee is rate x ceil(10.5 + 68 inputs + 31 counted outputs + memo
\* overhead), where the counted outputs are the payment outputs the build
\* keeps plus one change output, whether or not the change is emitted.
\* ------------------------------------------------------------------------
C16_SelectionSufficiency ==
  [][\A o \in Ops, all \in UtxoListings, resp \in FeeResponses, tier \in FeeTiers :
       (op[o].pc = "fetching" /\ op'[o].pc # "fetching"
        /\ selectAndBuildPriced(o, all, {}, resp, tier, TRUE))
         => LET me    == op[o]
                r     == RateOf(resp, tier)
                avail == availableUtxos(all, {}, reservedUtxos, spentUtxos, now)
                feasible ==
                  \E S \in SUBSET avail :
                    /\ S # {}
                    /\ SumValues(S) >= me.amount
                         + r * VsizeFor(Cardinality(S), CountedRegular(me), MemoOverhead(me))
            IN  /\ feasible <=> BuiltNow(o)
                /\ BuiltNow(o)
                     => /\ InputSum(op'[o]) >= me.amount + op'[o].fee
                        /\ op'[o].fee = r * VsizeFor(Len(op'[o].inputs), CountedRegular(me),
                                                     MemoOverhead(me))]_vars

\* a plain transfer was built without a change output: one output, the fee
\* computed for two
C16_Witness ==
  \E o \in Ops :
    /\ op[o].kind = "send"
    /\ op[o].pc = "broadcasting"
    /\ Len(op[o].outputs) = 1
    /\ op[o].change <= 546
    /\ op[o].fee = 10 * 141

\* ------------------------------------------------------------------------
\* C17: whatever the fee oracle answers (fetched rates, a fresh cache, a
\* stale cache or the fallback table after a failed fetch, tiers missing or
\* below the floor), the fee of a built transaction, and what it actually
\* pays (inputs minus outputs), is at least 2 sat/vB times the vsize
\* estimated for it.
\* ------------------------------------------------------------------------
C17_FeeFloor ==
  [][\A o \in Ops, all \in UtxoListings, resp \in FeeResponses, tier \in FeeTiers :
       (BuiltNow(o) /\ selectAndBuildPriced(o, all, {}, resp, tier, TRUE))
         => LET me == op'[o]
                v  == VsizeFor(Len(me.inputs), CountedRegular(me), MemoOverhead(me))
            IN  /\ RateOf(resp, tier) >= 2
                /\ me.fee >= 2 * v
                /\ InputSum(me) - OutputSum(me) >= 2 * v]_vars

\* a build priced from a fetched tier that was below the floor, while the
\* cache holds the floored rates
C17_Witness ==
  \E o \in Ops :
    /\ op[o].pc = "broadcasting"
    /\ op[o].kind \in SelectionKinds
    /\ feeRateCache.set
    /\ feeRateCache.rates.halfHourFee = 2
    /\ op[o].fee = 2 * VsizeFor(Len(op[o].inputs), CountedRegular(op[o]), MemoOverhead(op[o]))

\* ------------------------------------------------------------------------
\* C18: a built transaction has a change output exactly when
\* sum(inputs) - amount - fee > 546; otherwise there is no change output, no
\* PendingChange is recorded for it, and the inputs equal the outputs
\* emitted plus the fee plus the omitted change.
\* ------------------------------------------------------------------------
C18_DustSuppression ==
  [][\A o \in Ops :
       /\ BuiltNow(o)
            => LET me     == op'[o]
                   change == InputSum(me) - me.amount - me.fee
                   hasChange == \E i \in 1..Len(me.outputs) : me.outputs[i].role = "change"
               IN  /\ hasChange <=> change > 546
                   /\ hasChange
                        => /\ me.outputs[changeVout(me.kind, me.outputs) + 1].value = change
                           /\ InputSum(me) = OutputSum(me) + me.fee
                   /\ ~hasChange => InputSum(me) = OutputSum(me) + me.fee + change
       /\ (op[o].pc = "accepted" /\ op'[o].pc = "done" /\ op[o].kind \in SelectionKinds
           /\ op[o].change <= 546)
            => pendingChangeUtxos' = pendingChangeUtxos]_vars

\* ------------------------------------------------------------------------
\* C19: with the key set, sendBitcoinWithMemo refuses an amount <= 10000
\* with the bridge-minimum error, refuses a memo of 81 bytes or more with
\* MemoTooLong when the amount passes, and goes on to its fetches with
\* amount 10001 and a memo of exactly 80 bytes; a refusal happens in the
\* first turn, before any fetch, and leaves ledger and network untouched.
\* ------------------------------------------------------------------------
C19_MemoPreconditions ==
  [][\A o \in Ops, a \in BuildAmounts, m \in BuildMemoLens :
       (hasKey /\ sendBitcoinWithMemo_start(o, a, m))
         => /\ a <= 10000 => op'[o].err = "BelowBridgeMinimum"
            /\ (a >= 10001 /\ m >= 81) => op'[o].err = "MemoTooLong"
            /\ (a >= 10001 /\ m <= 80) => (op'[o].pc = "fetching" /\ op'[o].err = "none")
            /\ op'[o].err \in {"BelowBridgeMinimum", "MemoTooLong"}
                 => /\ op'[o].pc = "failed"
                    /\ op'[o].inputs = <<>>
                    /\ UNCHANGED <<ledger, netTxs>>]_vars

\* a memo transfer of 10001 sats with an 80-byte memo was built
C19_Witness ==
  \E o \in Ops :
    /\ op[o].kind = "memo"
    /\ op[o].pc = "broadcasting"
    /\ op[o].amount = 10001
    /\ op[o].memoLen = 80

\* ------------------------------------------------------------------------
\* C20: a plain transfer is built as [recipient, change?] and a memo
\* transfer as [recipient, change?, OP_RETURN]: output 0 pays the recipient
\* the amount, a change output is output 1 and pays the engine's own
\* address, the OP_RETURN output is last and carries value 0.
\* ------------------------------------------------------------------------
C20_OutputOrder ==
  [][\A o \in Ops :
       (BuiltNow(o) /\ op'[o].kind \in {"send", "memo"})
         => LET me   == op'[o]
                outs == me.outputs
                n    == Len(outs)
                changeAt == {i \in 1..n : outs[i].role = "change"}
                opretAt  == {i \in 1..n : outs[i].role = "opret"}
            IN  /\ outs[1].role = "recipient" /\ outs[1].value = me.amount
                /\ changeAt \subseteq {2}
                /\ \A i \in changeAt : PaysSelf(outs[i]) /\ outs[i].value = me.change
                /\ me.kind = "send" => (opretAt = {} /\ n = 1 + Cardinality(changeAt))
                /\ me.kind = "memo"
                     => /\ opretAt = {n}
                        /\ outs[n].value = 0
                        /\ n = 2 + Cardinality(changeAt)]_vars

\* a memo transfer with all three outputs
C20_Witness ==
  \E o \in Ops :
    /\ op[o].kind = "memo"
    /\ op[o].pc = "broadcasting"
    /\ Len(op[o].outputs) = 3
    /\ op[o].outputs[2].role = "change"
    /\ op[o].outputs[3].role = "opret"

\* ------------------------------------------------------------------------
\* C21: the outputs-only rebuild emits every template output that does not
\* pay the engine's own address (OP_RETURN or not) with its value, in the
\* template's order, emits no template output paying the engine's own
\* address, and appends its own change output last.
\* ------------------------------------------------------------------------
C21_RebuildKeepsForeignOutputs ==
  [][\A o \in Ops :
       (BuiltNow(o) /\ op'[o].kind = "relay")
         => LET me       == op'[o]
                NotSelf(x) == x.kind # "self"
                foreign  == SelectSeq(Templates[me.tmpl].outs, NotSelf)
                n        == Len(me.outputs)
                changeAt == {i \in 1..n : me.outputs[i].role = "change"}
                body     == SubSeq(me.outputs, 1, n - Cardinality(changeAt))
            IN  /\ changeAt \subseteq {n}
                /\ \A i \in changeAt : me.outputs[i].value = me.change
                /\ Len(body) = Len(foreign)
                /\ \A i \in 1..Len(body) :
                     /\ body[i].role = foreign[i].kind
                     /\ body[i].value = foreign[i].value]_vars

\* ------------------------------------------------------------------------
\* C22: the fee oracle never makes a build fail: with a cache younger than
\* 60 s the build is priced from the cache and the cache is left alone
\* whatever the endpoint would answer (no fetch); otherwise, when the
\* fetch fails, the build is priced from the cache whatever its age, or
\* from the static table when there is no cache, and the cache stays as
\* it was; a successful fetch is the only thing that replaces the cache.
\* ------------------------------------------------------------------------
C22_RatesNeverThrow ==
  [][\A o \in Ops, all \in UtxoListings, resp \in FeeResponses, tier \in FeeTiers :
       (op[o].pc = "fetching" /\ selectAndBuildPriced(o, all, {}, resp, tier, TRUE))
         => LET me     == op'[o]
                fresh  == feeRateCache.set /\ now - feeRateCache.timestamp <= 59999
                source == IF feeRateCache.set THEN feeRateCache.rates ELSE DEFAULT_FEE_RATES
                v      == VsizeFor(Len(me.inputs), CountedRegular(me), MemoOverhead(me))
            IN  /\ me.err \in {"none", "NoUtxosFound", "NoAvailableUtxos", "InsufficientFunds"}
                /\ me.err = "none" <=> me.pc = "broadcasting"
                /\ (fresh \/ ~resp.ok)
                     => /\ feeRateCache' = feeRateCache
                        /\ BuiltNow(o) => me.fee = getFeeRateForTier(source, tier) * v
                /\ (~fresh /\ resp.ok)
                     => /\ feeRateCache'.set
                        /\ feeRateCache'.timestamp = now]_vars

\* a build made exactly 60 s after the cache was filled, while the endpoint
\* was down: priced at the cached priority rate, the cache still the old one
C22_Witness ==
  \E o \in Ops :
    /\ op[o].pc = "broadcasting"
    /\ now = FEE_RATE_CACHE_TTL
    /\ \E k \in InputsOf(o) :
         k \in DOMAIN reservedUtxos /\ reservedUtxos[k].expiresAt = now + UTXO_RESERVATION_TTL
    /\ feeRateCache.set
    /\ feeRateCache.timestamp = 0
    /\ feeRateCache.rates.fastestFee = 20
    /\ op[o].fee = 20 * VsizeFor(Len(op[o].inputs), CountedRegular(op[o]), MemoOverhead(op[o]))

\* ------------------------------------------------------------------------
\* waitForMempoolConfirmation: one turn per timer and per lookup answer
\* ------------------------------------------------------------------------

\* what the transaction lookup answers: res.ok, a 404, or a rejected fetch
LookupAnswers == {"ok", "notFound", "networkError"}

\* the clock moves in whole seconds
WaitClockSteps == {1000, 2000}

\* startTime is taken and the minimum-wait timer is set
waitForMempoolConfirmation_start ==
  /\ vis.pc = "idle"
  /\ vis' = [vis EXCEPT !.pc = "minWait", !.startTime = now,
                        !.wakeAt = now + MEMPOOL_MIN_WAIT_MS]
  /\ UNCHANGED <<now, ticks, hasKey, phase, crashes, ledger, op, netTxs, broadcastOk,
                 feeRateCache, exec, pendingSwaps, settlementLog, runs>>

\* a timer resolves: the loop condition is evaluated, then either the
\* lookup is issued or the call returns false
waitForMempoolConfirmation_wake ==
  /\ vis.pc \in {"minWait", "pollWait"}
  /\ now >= vis.wakeAt
  /\ vis' = IF now - vis.startTime < MEMPOOL_MAX_WAIT_MS
            THEN [vis EXCEPT !.pc = "lookup", !.lookups = vis.lookups + 1, !.wakeAt = now]
            ELSE [vis EXCEPT !.pc = "returned", !.result = FALSE]
  /\ UNCHANGED <<now, ticks, hasKey, phase, crashes, ledger, op, netTxs, broadcastOk,
                 feeRateCache, exec, pendingSwaps, settlementLog, runs>>

afterLookup_throwOnError(w, answer, t) ==
  IF answer = "ok" THEN [w EXCEPT !.pc = "returned", !.result = TRUE, !.lastAnswer = t]
  ELSE IF answer = "networkError" THEN [w EXCEPT !.pc = "threw", !.lastAnswer = t]
  ELSE [w EXCEPT !.pc = "pollWait", !.wakeAt = t + MEMPOOL_POLL_INTERVAL_MS, !.lastAnswer = t]

\* the body of the loop after the fetch settled at time t
afterLookup(w, answer, t) ==
  IF answer = "ok"
  THEN [w EXCEPT !.pc = "returned", !.result = TRUE, !.lastAnswer = t]
  ELSE [w EXCEPT !.pc = "pollWait", !.wakeAt = t + MEMPOOL_POLL_INTERVAL_MS, !.lastAnswer = t]

\* the fetch of the lookup settles
waitForMempoolConfirmation_answer(answer) ==
  /\ vis.pc = "lookup"
  /\ vis' = afterLookup(vis, answer, now)
  /\ UNCHANGED <<now, ticks, hasKey, phase, crashes, ledger, op, netTxs, broadcastOk,
                 feeRateCache, exec, pendingSwaps, settlementLog, runs>>

\* time passes while the call waits: a due timer is served at most
\* MaxTimerLateMs late, a lookup settles within MaxLookupMs
waitClock(d) ==
  /\ vis.pc \in {"minWait", "pollWait", "lookup"}
  /\ vis.pc \in {"minWait", "pollWait"} => now + d <= vis.wakeAt + MaxTimerLateMs
  /\ vis.pc = "lookup" => now + d <= vis.wakeAt + MaxLookupMs
  /\ now' = now + d
  /\ UNCHANGED <<ticks, hasKey, phase, crashes, ledger, op, netTxs, broadcastOk,
                 feeRateCache, vis, exec, pendingSwaps, settlementLog, runs>>

NextWait ==
  \/ waitForMempoolConfirmation_start
  \/ waitForMempoolConfirmation_wake
  \/ \E answer \in LookupAnswers : waitForMempoolConfirmation_answer(answer)
  \/ \E d \in WaitClockSteps : waitClock(d)

\* timers fire and fetches settle: the event loop never stays idle while a
\* callback is due
SpecWait == Init /\ [][NextWait]_vars /\ WF_vars(NextWait)

ExecOp == 1

\* a quote: the template it carries, 0 when it carries no PSBT, -1 when the
\* request for a fresh quote failed
NoPsbtQuote == 0
FailedQuote == -1
Quotes == TemplateIds \cup {NoPsbtQuote, FailedQuote}

\* what the broadcast endpoint may answer instead of a txid
BroadcastErrors == {"BroadcastRejected", "BroadcastOther"}

isUtxoError_any(err) == TRUE

isUtxoError_orLost(err) == err \in {"BroadcastRejected", "ResponseReadFailed", "BroadcastOther"}

\* the message carries 'bad-txns-inputs-missingorspent', 'Missing inputs'
\* or 'already spent'
isUtxoError(err) == err = "BroadcastRejected"

retryAllowed_noCap(err, attempt) == isUtxoError(err)

\* if (isUtxoError && attempt < MAX_RETRIES)
retryAllowed(err, attempt) == isUtxoError(err) /\ attempt < MAX_RETRIES

\* the catch block, entered at time t with the error of the attempt
caught(e, err, t) ==
  IF retryAllowed(err, e.attempt)
  THEN [e EXCEPT !.pc = "backoff", !.lastError = err, !.wakeAt = t + RETRY_BACKOFF_MS]
  ELSE [e EXCEPT !.pc = "failed", !.lastError = err]

\* the body of the try up to the await of buildTxFromRelayOutputs, with
\* the quote of this attempt
attemptWith(q, attempt) ==
  IF q \in TemplateIds
  THEN /\ buildTxFromRelayOutputs_start(ExecOp, q)
       /\ exec' = [exec EXCEPT !.pc = "building", !.attempt = attempt]
  ELSE /\ exec' = caught([exec EXCEPT !.attempt = attempt],
                         IF q = NoPsbtQuote THEN "NoPsbt" ELSE "QuoteFailed", now)
       /\ UNCHANGED <<now, ticks, hasKey, phase, crashes, ledger, op, netTxs, broadcastOk>>

\* execute(): the first attempt uses the quote already at hand
executeBtcToEvm_start(q) ==
  /\ exec.pc = "idle"
  /\ phase = "running"
  /\ q # FailedQuote
  /\ attemptWith(q, 1)
  /\ UNCHANGED <<feeRateCache, vis, pendingSwaps, settlementLog, runs>>

\* buildTxFromRelayOutputs threw: the catch block takes the error
executeBtcToEvm_catch ==
  /\ exec.pc = "building"
  /\ op[ExecOp].pc = "failed"
  /\ exec' = caught(exec, op[ExecOp].err, now)
  /\ op' = [op EXCEPT ![ExecOp] = IdleOp]
  /\ UNCHANGED <<now, ticks, hasKey, phase, crashes, ledger, netTxs, broadcastOk,
                 feeRateCache, vis, pendingSwaps, settlementLog, runs>>

\* the 2 s timer resolved: initializeUtxoStateFromMempool is called
executeBtcToEvm_backoffDone ==
  /\ exec.pc = "backoff"
  /\ now >= exec.wakeAt
  /\ exec' = [exec EXCEPT !.pc = "refreshing"]
  /\ UNCHANGED <<now, ticks, hasKey, phase, crashes, ledger, op, netTxs, broadcastOk,
                 feeRateCache, vis, pendingSwaps, settlementLog, runs>>

\* the refresh resolved: `continue`, the next attempt asks for a fresh quote
executeBtcToEvm_refreshed(listing, fetchOk) ==
  /\ exec.pc = "refreshing"
  /\ initializeUtxoStateFromMempool(listing, fetchOk)
  /\ phase' = phase
  /\ exec' = [exec EXCEPT !.pc = "quoting"]
  /\ UNCHANGED <<feeRateCache, vis, pendingSwaps, settlementLog, runs>>

\* getFreshQuote settled
executeBtcToEvm_quoted(q) ==
  /\ exec.pc = "quoting"
  /\ attemptWith(q, exec.attempt + 1)
  /\ UNCHANGED <<feeRateCache, vis, pendingSwaps, settlementLog, runs>>

\* buildTxFromRelayOutputs returned the txid: the visibility wait, which
\* cannot throw, and the return of the result
executeBtcToEvm_return ==
  /\ exec.pc = "building"
  /\ op[ExecOp].pc = "done"
  /\ exec' = [exec EXCEPT !.pc = "done"]
  /\ UNCHANGED <<now, ticks, hasKey, phase, crashes, ledger, op, netTxs, broadcastOk,
                 feeRateCache, vis, pendingSwaps, settlementLog, runs>>

\* broadcastTx threw "Broadcast failed: ..." although the transaction is in
\* the mempool: a non-200 status from in front of the node (a gateway
\* timeout), whose body carries none of the UTXO messages
broadcastStatusAfterAccept(o) ==
  /\ op[o].pc = "accepted"
  /\ reservedUtxos' = releaseUtxos(reservedUtxos, SeqRange(op[o].inputs))
  /\ op' = Fail(o, op[o], "BroadcastOther")
  /\ UNCHANGED <<now, ticks, hasKey, phase, crashes, spentUtxos, pendingChangeUtxos,
                 netTxs, broadcastOk>>

\* the clock reaches the backoff timer
backoffClock ==
  /\ exec.pc = "backoff"
  /\ now < exec.wakeAt
  /\ now' = exec.wakeAt
  /\ UNCHANGED <<ticks, hasKey, phase, crashes, ledger, op, netTxs, broadcastOk,
                 feeRateCache, vis, exec, pendingSwaps, settlementLog, runs>>

\* a plain transfer made by another caller while the execute runs
RetryAmounts == {40000, 47590, 95000, 97231}

NextRetry ==
  \/ \E l \in SUBSET netTxs : startupRecovery(l, TRUE) /\ UNCHANGED side
  \/ \E q \in Quotes : executeBtcToEvm_start(q)
  \/ executeBtcToEvm_catch
  \/ executeBtcToEvm_backoffDone
  \/ \E l \in SUBSET netTxs, ok \in BOOLEAN : executeBtcToEvm_refreshed(l, ok)
  \/ \E q \in Quotes : executeBtcToEvm_quoted(q)
  \/ executeBtcToEvm_return
  \/ backoffClock
  \/ \E a \in RetryAmounts : sendBitcoin_start(ExecOp + 1, a) /\ UNCHANGED side
  \/ \E o \in Ops, all \in UtxoListings, ps \in PendingSpendSets :
       selectAndBuildPriced(o, all, ps, FeeFetchFailed, "normal", TRUE)
  \/ \E o \in Ops : networkAccepts(o) /\ UNCHANGED side
  \/ \E o \in Ops : broadcastReturns(o) /\ UNCHANGED side
  \/ \E o \in Ops : broadcastResponseLost(o) /\ UNCHANGED side
  \/ \E o \in Ops, e \in BroadcastErrors : broadcastFails(o, e) /\ UNCHANGED side
  \/ \E o \in Ops : broadcastStatusAfterAccept(o) /\ UNCHANGED side

SpecRetry == Init /\ [][NextRetry]_vars

\* the errors an attempt can end with
AttemptErrors ==
  {"NoCredential", "NoAvailableUtxos", "InsufficientFunds", "BroadcastRejected",
   "BroadcastOther", "ResponseReadFailed", "NoPsbt", "QuoteFailed"}

\* the running attempt ends with error err in this step
AttemptFailsWith(err) ==
  \/ executeBtcToEvm_catch /\ op[ExecOp].err = err
  \/ /\ err \in {"NoPsbt", "QuoteFailed"}
     /\ LET q == IF err = "NoPsbt" THEN NoPsbtQuote ELSE FailedQuote
        IN  executeBtcToEvm_start(q) \/ executeBtcToEvm_quoted(q)

\* ------------------------------------------------------------------------
\* C24: the execute makes at most 3 attempts; an attempt that fails with
\* the missing-or-spent-inputs signature before the third is followed by
\* the 2 s backoff, then by a completed ledger refresh, and only then by
\* the next attempt; the error of a failed third attempt is rethrown.
\* ------------------------------------------------------------------------
C24_RetryWithRefresh ==
  [][/\ exec'.attempt \in 0..3
     /\ \A err \in AttemptErrors :
          (executeBtcToEvm_catch /\ op[ExecOp].err = err)
            => IF err = "BroadcastRejected" /\ exec.attempt <= 2
               THEN /\ exec'.pc = "backoff"
                    /\ exec'.wakeAt = now + 2000
                    /\ exec'.attempt = exec.attempt
               ELSE /\ exec'.pc = "failed"
                    /\ exec'.lastError = err
     /\ (exec.pc # "refreshing" /\ exec'.pc = "refreshing")
          => (exec.pc = "backoff" /\ now >= exec.wakeAt)
     /\ (exec.pc # "quoting" /\ exec'.pc = "quoting")
          => /\ exec.pc = "refreshing"
             /\ \E l \in SUBSET netTxs, ok \in BOOLEAN : initializeUtxoStateFromMempool(l, ok)
     /\ (exec.attempt >= 1 /\ exec'.attempt # exec.attempt)
          => /\ exec.pc = "quoting"
             /\ exec'.attempt = exec.attempt + 1
             /\ exec.lastError = "BroadcastRejected"
             /\ now >= exec.wakeAt]_vars

\* three attempts were rejected for missing or spent inputs: the third
\* rejection was rethrown
C24_Witness ==
  /\ exec.pc = "failed"
  /\ exec.attempt = 3
  /\ exec.lastError = "BroadcastRejected"
  /\ now >= 2 * RETRY_BACKOFF_MS

\* ------------------------------------------------------------------------
\* C25: an attempt that fails with any error other than the
\* missing-or-spent-inputs signature ends the execute with that error in
\* the same turn, and a failed execute does nothing more: no attempt, no
\* backoff, no refresh.
\* ------------------------------------------------------------------------
C25_OtherErrorsNotRetried ==
  [][/\ \A err \in AttemptErrors \ {"BroadcastRejected"} :
          AttemptFailsWith(err)
            => /\ exec'.pc = "failed"
               /\ exec'.lastError = err
     /\ exec.pc = "failed"
          => /\ exec' = exec
             /\ op'[ExecOp] = op[ExecOp]]_vars

\* the second attempt, made after a refresh, failed for lack of funds
C25_Witness ==
  /\ exec.pc = "failed"
  /\ exec.attempt = 2
  /\ exec.lastError = "InsufficientFunds"

\* the listed UTXOs a build may not use at time t, whatever the reason
Excluded(allUtxos, pendingSpends) ==
  {u \in allUtxos :
     \/ utxoKey(u) \in pendingSpends
     \/ utxoKey(u) \in DOMAIN reservedUtxos /\ now <= reservedUtxos[utxoKey(u)].expiresAt
     \/ utxoKey(u) \in DOMAIN spentUtxos /\ now - spentUtxos[utxoKey(u)].spentAt <= SPENT_UTXO_TTL}

C27_Scenario(o, all, ps) ==
  /\ BuiltNow(o)
  /\ op[o].kind = "send"
  /\ op[o].amount = 40000
  /\ selectAndBuildPriced(o, all, ps, FeeFetchFailed, "normal", TRUE)
  /\ availableUtxos(all, ps, reservedUtxos, spentUtxos, now) = Utxos
  /\ RateOf(FeeFetchFailed, "normal") = 10

\* ------------------------------------------------------------------------
\* C27 (as stated): with 50000, 30000 and 20000 available, a plain transfer
\* of 40000 sats at 10 sat/vB spends the 50000 UTXO alone, pays a fee of
\* 1600 (vsize 160) and emits a change output of 8400.
\* ------------------------------------------------------------------------
C27_TransferScenarioAsStated ==
  [][\A o \in Ops, all \in UtxoListings, ps \in PendingSpendSets :
       C27_Scenario(o, all, ps)
         => /\ op'[o].inputs = << <<FundingTxid, 0>> >>
            /\ op'[o].fee = 1600
            /\ op'[o].outputs = << [role |-> "recipient", value |-> 40000],
                                   [role |-> "change", value |-> 8400] >>]_vars

\* ------------------------------------------------------------------------
\* C27 (amended): with 50000, 30000 and 20000 available, a plain transfer
\* of 40000 sats at 10 sat/vB spends the 50000 UTXO alone, pays a fee of
\* 1410 (vsize 141 = ceil(10.5 + 68 + 62)) and emits a change output of
\* 8590.
\* ------------------------------------------------------------------------
C27_TransferScenario ==
  [][\A o \in Ops, all \in UtxoListings, ps \in PendingSpendSets :
       C27_Scenario(o, all, ps)
         => /\ op'[o].inputs = << <<FundingTxid, 0>> >>
            /\ UtxoOfKey(<<FundingTxid, 0>>).value = 50000
            /\ calcVsize(1, 2, 0) = 141
            /\ op'[o].fee = 1410
            /\ op'[o].change = 8590
            /\ op'[o].outputs = << [role |-> "recipient", value |-> 40000],
                                   [role |-> "change", value |-> 8590] >>]_vars

\* the transfer of the scenario, built while nothing else was in flight
C27_Witness ==
  \E o \in Ops :
    /\ op[o].pc = "broadcasting"
    /\ op[o].kind = "send"
    /\ op[o].amount = 40000
    /\ op[o].inputs = << <<FundingTxid, 0>> >>
    /\ op[o].fee = 1410
    /\ DOMAIN reservedUtxos = {<<FundingTxid, 0>>}
    /\ spentUtxos = EmptyMap
    /\ netTxs = {}

\* a plain transfer of amount sats is decided in this step from a listing
\* of which 50000, 30000 and 20000 are all usable, at 10 sat/vB
C28_Scenario(o, all, ps, amount) ==
  /\ op[o].pc = "fetching"
  /\ op[o].kind = "send"
  /\ op[o].amount = amount
  /\ selectAndBuildPriced(o, all, ps, FeeFetchFailed, "normal", TRUE)
  /\ availableUtxos(all, ps, reservedUtxos, spentUtxos, now) = Utxos
  /\ RateOf(FeeFetchFailed, "normal") = 10

\* ------------------------------------------------------------------------
\* C28 (as stated): with 50000, 30000 and 20000 available at 10 sat/vB, a
\* plain transfer of 95000 sats fails with InsufficientFunds.
\* ------------------------------------------------------------------------
C28_InsufficientScenarioAsStated ==
  [][\A o \in Ops, all \in UtxoListings, ps \in PendingSpendSets :
       C28_Scenario(o, all, ps, 95000)
         => /\ op'[o].pc = "failed"
            /\ op'[o].err = "InsufficientFunds"]_vars

\* ------------------------------------------------------------------------
\* C28 (amended): with 50000, 30000 and 20000 available at 10 sat/vB, a
\* plain transfer of 95000 sats is built from all three UTXOs: the fee for
\* 3 inputs and 2 outputs is 2770 (vsize 277), 100000 >= 97770, and the
\* change is 2230. A transfer of 97231 sats fails with InsufficientFunds
\* (have 100000, need 100001).
\* ------------------------------------------------------------------------
C28_InsufficientScenario ==
  [][\A o \in Ops, all \in UtxoListings, ps \in PendingSpendSets :
       /\ C28_Scenario(o, all, ps, 95000)
            => /\ op'[o].pc = "broadcasting"
               /\ InputsOf(o)' = Keys
               /\ SumValues(Utxos) = 100000
               /\ calcVsize(3, 2, 0) = 277
               /\ op'[o].fee = 2770
               /\ op'[o].outputs = << [role |-> "recipient", value |-> 95000],
                                      [role |-> "change", value |-> 2230] >>
       /\ C28_Scenario(o, all, ps, 97231)
            => /\ op'[o].pc = "failed"
               /\ op'[o].err = "InsufficientFunds"
               /\ thrownError(op[o], all, ps, reservedUtxos, spentUtxos, now, 10).have = 100000
               /\ thrownError(op[o], all, ps, reservedUtxos, spentUtxos, now, 10).need = 100001]_vars

\* the transfer of 95000 sats was built from the three UTXOs
C28_Witness ==
  \E o \in Ops :
    /\ op[o].pc = "broadcasting"
    /\ op[o].kind = "send"
    /\ op[o].amount = 95000
    /\ Len(op[o].inputs) = 3
    /\ op[o].fee = 2770

\* the refresh of the ledger completes in this step, with the key set and
\* the fetch answering the listing l
C29_Recovered(l) ==
  /\ exec.pc = "refreshing"
  /\ hasKey
  /\ executeBtcToEvm_refreshed(l, TRUE)

\* ------------------------------------------------------------------------
\* C29 (as stated): recovery records every input of every listed pending
\* transaction as spent in that transaction, and every output paying the
\* address as a PendingChange; for a transaction spending txidA:0 and
\* paying the address at vout 1, the PendingChange is at txidA:1.
\* ------------------------------------------------------------------------
C29_RecoveryScenarioAsStated ==
  [][\A l \in SUBSET netTxs :
       C29_Recovered(l)
         => \A tx \in l :
              /\ \A k \in tx.vin :
                   /\ isUtxoSpentByUs(spentUtxos', k, now)
                   /\ spentUtxos'[k].spentInTxid = tx.txid
              /\ \A k \in tx.vin, i \in 1..Len(tx.vout) :
                   PaysSelf(tx.vout[i])
                     => /\ <<k[1], i - 1>> \in DOMAIN pendingChangeUtxos'
                        /\ pendingChangeUtxos'[<<k[1], i - 1>>].value = tx.vout[i].value]_vars

\* ------------------------------------------------------------------------
\* C29 (amended): recovery records every input of every listed pending
\* transaction as spent in that transaction, and every output of such a
\* transaction that pays the address as a PendingChange under the pending
\* transaction's own id and the output's index, with the output's value;
\* outputs paying others are not recorded and no reservation is touched.
\* ------------------------------------------------------------------------
C29_RecoveryScenario ==
  [][\A l \in SUBSET netTxs :
       C29_Recovered(l)
         => /\ \A tx \in l :
                 /\ \A k \in tx.vin :
                      /\ isUtxoSpentByUs(spentUtxos', k, now)
                      /\ spentUtxos'[k].spentInTxid = tx.txid
                      /\ spentUtxos'[k].spentAt = now
                 /\ \A i \in 1..Len(tx.vout) :
                      IF PaysSelf(tx.vout[i])
                      THEN /\ <<tx.txid, i - 1>> \in DOMAIN pendingChangeUtxos'
                           /\ pendingChangeUtxos'[<<tx.txid, i - 1>>] =
                                [txid |-> tx.txid, vout |-> i - 1, value |-> tx.vout[i].value]
                      ELSE <<tx.txid, i - 1>> \in DOMAIN pendingChangeUtxos'
                             => <<tx.txid, i - 1>> \in DOMAIN pendingChangeUtxos
            /\ \A k \in DOMAIN spentUtxos' :
                 k \in DOMAIN spentUtxos \/ \E tx \in l : k \in tx.vin
            /\ reservedUtxos' = reservedUtxos]_vars

\* the refresh found a pending transfer that spends 0:0 and pays 1000 back
\* at vout 1, before the transfer's own broadcast call returned
C29_Witness ==
  \E o \in Ops :
    /\ exec.pc = "quoting"
    /\ op[o].pc = "accepted"
    /\ <<FundingTxid, 0>> \in DOMAIN spentUtxos
    /\ spentUtxos[<<FundingTxid, 0>>].spentInTxid = o
    /\ <<o, 1>> \in DOMAIN pendingChangeUtxos
    /\ pendingChangeUtxos[<<o, 1>>].value = 1000
    /\ <<FundingTxid, 1>> \notin DOMAIN pendingChangeUtxos

\* ------------------------------------------------------------------------
\* Settlement tracker: trackSwap and the watcher's checkAllPending
\* ------------------------------------------------------------------------
SwapIds == 1..MaxSwaps

\* providers with an entry in providerCheckers, and one without
Providers == {"Relay", "Thorchain"}
providerCheckers == {"Rift", "Relay"}

\* what checkSettlementOnce gives for a swap: a payout, status 'failed',
\* nothing yet, or an exception
SettlementAnswers == {"completed", "failed", "pending", "error"}

\* the clock between two runs of the watcher: one poll interval, the two
\* hours of the README, the rest of the 24 hours
SettleSteps == {POLL_INTERVAL_MS, README_TIMEOUT_MS, MAX_WAIT_MS - README_TIMEOUT_MS}

\* swapIds that were ever tracked
Tracked == DOMAIN pendingSwaps \cup {settlementLog[i].swapId : i \in 1..Len(settlementLog)}

\* trackSwap(result): the result carries timestamp: Date.now()
trackSwap(id, provider) ==
  /\ id \notin Tracked
  /\ \A j \in SwapIds : j < id => j \in Tracked
  /\ pendingSwaps' = MapSetAll(pendingSwaps, {id}, [provider |-> provider, timestamp |-> now])
  /\ UNCHANGED <<now, ticks, hasKey, phase, crashes, ledger, op, netTxs, broadcastOk,
                 feeRateCache, vis, exec, settlementLog, runs>>

\* the loop body for one swap at time t: the status logged and whether the
\* swap leaves the pending set
checkOne(swap, answer, t) ==
  IF t - swap.timestamp > MAX_WAIT_MS
  THEN [logged |-> "timeout", removed |-> TRUE]
  ELSE IF swap.provider \notin providerCheckers
  THEN [logged |-> "none", removed |-> FALSE]
  ELSE IF answer \in {"completed", "failed"}
  THEN [logged |-> answer, removed |-> TRUE]
  ELSE [logged |-> "none", removed |-> FALSE]

\* checkAllPending: nothing happens on an empty map or when getTokenPrices
\* rejects; otherwise the swaps are visited in insertion order
checkAllPending(pricesOk, answers) ==
  /\ pendingSwaps # EmptyMap
  /\ LET RECURSIVE Rows(_)
         Rows(id) ==
           IF id > MaxSwaps THEN <<>>
           ELSE IF id \in DOMAIN pendingSwaps
                   /\ checkOne(pendingSwaps[id], answers[id], now).removed
           THEN << [swapId |-> id,
                    status |-> checkOne(pendingSwaps[id], answers[id], now).logged] >>
                  \o Rows(id + 1)
           ELSE Rows(id + 1)
         gone == {id \in DOMAIN pendingSwaps :
                    checkOne(pendingSwaps[id], answers[id], now).removed}
     IN  IF pricesOk
         THEN /\ settlementLog' = settlementLog \o Rows(1)
              /\ pendingSwaps' = MapDelete(pendingSwaps, gone)
         ELSE UNCHANGED <<pendingSwaps, settlementLog>>
  /\ UNCHANGED <<now, ticks, hasKey, phase, crashes, ledger, op, netTxs, broadcastOk,
                 feeRateCache, vis, exec, runs>>

\* time passes between two runs of the watcher
settleClock(d) ==
  /\ ticks < MaxSettleTicks
  /\ ticks' = ticks + 1
  /\ now' = now + d
  /\ UNCHANGED <<hasKey, phase, crashes, ledger, op, netTxs, broadcastOk,
                 feeRateCache, vis, exec, pendingSwaps, settlementLog, runs>>

NextSettle ==
  \/ \E id \in SwapIds, provider \in Providers : trackSwap(id, provider)
  \/ \E pricesOk \in BOOLEAN, answers \in [SwapIds -> SettlementAnswers] :
       checkAllPending(pricesOk, answers)
  \/ \E d \in SettleSteps : settleClock(d)

SpecSettle == Init /\ [][NextSettle]_vars

\* ------------------------------------------------------------------------
\* C30: a settlement check that runs more than 2 hours after the timestamp
\* of a tracked swap that has not settled logs the swap with status
\* 'timeout' and removes it from the pending set.
\* ------------------------------------------------------------------------
C30_TimeoutAfterTwoHours ==
  [][\A answers \in [SwapIds -> SettlementAnswers] :
       checkAllPending(TRUE, answers)
         => \A id \in DOMAIN pendingSwaps :
              (now - pendingSwaps[id].timestamp > 7200000 /\ answers[id] = "pending")
                => /\ id \notin DOMAIN pendingSwaps'
                   /\ \E i \in 1..Len(settlementLog') :
                        settlementLog'[i] = [swapId |-> id, status |-> "timeout"]]_vars

\* the Spend records of the transaction that produced the change c are past
\* their 10 minutes
ProducerSpendExpired(c) ==
  \E k \in DOMAIN spentUtxos :
    /\ spentUtxos[k].spentInTxid = c[1]
    /\ now - spentUtxos[k].spentAt > SPENT_UTXO_TTL

\* ------------------------------------------------------------------------
\* C31: a sweep (cleanupExpiredReservations and cleanupSpentUtxos at the
\* start of a build) that runs more than 10 minutes after a PendingChange
\* was recorded, together with the Spend records of its transaction,
\* deletes that PendingChange.
\* ------------------------------------------------------------------------
C31_PendingChangeSwept ==
  [][\A o \in Ops, t \in TemplateIds :
       (hasKey /\ buildTxFromRelayOutputs_start(o, t))
         => \A c \in DOMAIN pendingChangeUtxos :
              ProducerSpendExpired(c) => c \notin DOMAIN pendingChangeUtxos']_vars

\* the operation o begins a build in this step: its entry checks have passed
\* and the sweep of its first turn has run
BeginsBuild(o) == op[o].pc # "fetching" /\ op'[o].pc = "fetching"

\* ------------------------------------------------------------------------
\* C32: when sendBitcoin, sendBitcoinWithMemo or buildTxFromRelayOutputs
\* begins a build, the ledger it leaves for the selection pass holds no
\* expired Reservation, no Spend record past its TTL and no PendingChange
\* whose recording is past the TTL.
\* ------------------------------------------------------------------------
C32_SweepBeforeSelection ==
  [][\A o \in Ops :
       BeginsBuild(o)
         => /\ \A k \in DOMAIN reservedUtxos' : now <= reservedUtxos'[k].expiresAt
            /\ \A k \in DOMAIN spentUtxos' : now - spentUtxos'[k].spentAt <= SPENT_UTXO_TTL
            /\ \A c \in DOMAIN pendingChangeUtxos :
                 ProducerSpendExpired(c) => c \notin DOMAIN pendingChangeUtxos']_vars

\* sum of the values of the first j inputs of the build me
PrefixSum(me, j) == SumValues({UtxoOfKey(me.inputs[i]) : i \in 1..j})

\* ------------------------------------------------------------------------
\* C33: the inputs of a built transaction are the shortest prefix of the
\* available candidates, taken by value descending, whose sum covers
\* amount + rate x vsize(prefix length, planned outputs): no shorter prefix
\* covers its own target, no candidate left out is worth more than one
\* taken, and the fee is the rate times the vsize for the number of inputs
\* chosen.
\* ------------------------------------------------------------------------
C33_ShortestPrefix ==
  [][\A o \in Ops, all \in UtxoListings, resp \in FeeResponses, tier \in FeeTiers :
       (BuiltNow(o) /\ selectAndBuildPriced(o, all, {}, resp, tier, TRUE))
         => LET me     == op'[o]
                n      == Len(me.inputs)
                r      == RateOf(resp, tier)
                avail  == availableUtxos(all, {}, reservedUtxos, spentUtxos, now)
                Target(j) == me.amount + r * VsizeFor(j, CountedRegular(me), MemoOverhead(me))
                Value(i)  == UtxoOfKey(me.inputs[i]).value
            IN  /\ n >= 1
                /\ \A i \in 1..n : UtxoOfKey(me.inputs[i]) \in avail
                /\ \A i, j \in 1..n : i < j => Value(i) >= Value(j) /\ me.inputs[i] # me.inputs[j]
                /\ \A u \in avail : utxoKey(u) \notin SeqRange(me.inputs) => u.value <= Value(n)
                /\ \A j \in 1..(n - 1) : PrefixSum(me, j) < Target(j)
                /\ PrefixSum(me, n) >= Target(n)
                /\ me.fee = r * VsizeFor(n, CountedRegular(me), MemoOverhead(me))]_vars

\* a transfer of 48044 at 15 sat/vB: the largest candidate alone falls short
\* of 48044 + 15 x 141, the two largest cover 48044 + 15 x 209
C33_Witness ==
  \E o \in Ops :
    /\ op[o].pc = "broadcasting"
    /\ op[o].kind = "send"
    /\ op[o].amount = 48044
    /\ op[o].inputs = << <<0, 0>>, <<0, 1>> >>
    /\ op[o].fee = 15 * 209

\* ------------------------------------------------------------------------
\* C34: in a transaction built by the outputs-only rebuild, the payment
\* amount used for the selection and for the change equals the sum of the
\* values of the emitted outputs that are neither OP_RETURN nor the change,
\* and every kept template output that is not OP_RETURN is emitted,
\* whether or not its script decodes to an address.
\* ------------------------------------------------------------------------
C34_AmountMatchesEmitted ==
  [][\A o \in Ops :
       (BuiltNow(o) /\ op'[o].kind = "relay")
         => LET me      == op'[o]
                Paid(x) == x.role \notin {"opret", "change"}
                Kept(x) == x.kind \notin {"opret", "self"}
            IN  /\ me.amount = SeqSum(SelectSeq(me.outputs, Paid))
                /\ Len(SelectSeq(me.outputs, Paid))
                     = Len(SelectSeq(Templates[me.tmpl].outs, Kept))
                /\ InputSum(me) = SeqSum(SelectSeq(me.outputs, Paid)) + me.fee + me.change]_vars

\* ------------------------------------------------------------------------
\* C35: while a build is between its reserve() and the outcome of its
\* broadcast call, no other build selects one of its inputs and no
\* sign-as-given validation passes over one of them, however far the clock
\* has advanced since the reservation.
\* ------------------------------------------------------------------------
C35_InFlightInputsUnavailable ==
  [][\A o \in Ops, p \in Ops :
       (/\ p # o
        /\ InFlightReserved(o) /\ op[o].kind \in SelectionKinds
        /\ op[p].pc # "broadcasting" /\ op'[p].pc = "broadcasting")
         => InputsOf(o) \cap SeqRange(op'[p].inputs) = {}]_vars

\* the in-flight build p relies on a live reservation of the key k
HoldsLive(p, k) ==
  /\ InFlightReserved(p)
  /\ k \in InputsOf(p)
  /\ ReservationLive(reservedUtxos, k, now)

\* ------------------------------------------------------------------------
\* C36: when an operation fails and releases its inputs, every live
\* reservation that another in-flight build holds is still there
\* afterwards.
\* ------------------------------------------------------------------------
C36_ReleaseOnlyOwn ==
  [][\A o \in Ops, p \in Ops :
       (/\ p # o
        /\ op[o].pc \in {"broadcasting", "accepted", "validating"}
        /\ op'[o].pc = "failed")
         => \A k \in Keys :
              HoldsLive(p, k) => ReservationLive(reservedUtxos', k, now)]_vars

\* transactions of the attempts of the execute that the broadcast endpoint
\* accepted
AcceptedOfExecute == {tx \in netTxs : tx.txid = ExecOp}

\* ------------------------------------------------------------------------
\* C37: within one execute of the Relay BTC->EVM retry loop at most one
\* transaction is accepted by the broadcast endpoint, and the loop goes on
\* to a new attempt (the backoff, the refresh, the fresh quote, the next
\* build) only while no transaction of an earlier attempt was accepted,
\* whatever the broadcast call answered or threw.
\* ------------------------------------------------------------------------
C37_AtMostOneAccepted ==
  [][/\ Cardinality(AcceptedOfExecute') <= 1
     /\ (exec'.pc \in {"backoff", "refreshing", "quoting"} \/ exec'.attempt > exec.attempt)
          => AcceptedOfExecute = {}]_vars

\* the first attempt was rejected and retried; the second attempt's
\* transaction was accepted but its broadcast call threw: the execute failed
\* without a third attempt
C37_Witness ==
  /\ exec.pc = "failed"
  /\ exec.attempt = 2
  /\ exec.lastError = "ResponseReadFailed"
  /\ AcceptedOfExecute # {}

\* candidates of the listing with no live Reservation and no live Spend
LocallyFree(allUtxos) ==
  {u \in allUtxos : /\ ~ReservationLive(reservedUtxos, utxoKey(u), now)
                    /\ ~SpendLive(spentUtxos, utxoKey(u), now)}

\* ------------------------------------------------------------------------
\* C38: when the pending-spend listing fails, whatever the mempool holds,
\* a build selects among exactly the candidates that are neither reserved
\* nor spent locally (the most valuable ones first, one pending on the
\* network included), is built whenever they cover the amount and the fee
\* and does not fail on the listing; a sign-as-given validation resumes
\* with no 'mempool' conflict and no conflict error.
\* ------------------------------------------------------------------------
C38_ListingFailureIsEmpty ==
  [][\A o \in Ops, l \in SUBSET netTxs :
       /\ \A all \in UtxoListings :
            (op[o].pc = "fetching" /\ op'[o].pc # "fetching"
             /\ selectAndBuildPriced(o, all, getPendingSpends(l, FALSE),
                                     FeeFetchFailed, "normal", TRUE))
              => LET me   == op[o]
                     free == LocallyFree(all)
                     feasible ==
                       \E S \in SUBSET free :
                         /\ S # {}
                         /\ SumValues(S) >= me.amount
                              + RateOf(FeeFetchFailed, "normal")
                                  * VsizeFor(Cardinality(S), CountedRegular(me), MemoOverhead(me))
                 IN  /\ feasible <=> BuiltNow(o)
                     /\ BuiltNow(o)
                          => /\ \A k \in SeqRange(op'[o].inputs) : UtxoOfKey(k) \in free
                             /\ \A u \in free :
                                  utxoKey(u) \notin SeqRange(op'[o].inputs)
                                    => \A k \in SeqRange(op'[o].inputs) :
                                         u.value <= UtxoOfKey(k).value
       /\ \A fin \in BOOLEAN :
            (op[o].pc = "validating"
             /\ signAndBroadcastPsbt_resume(o, getPendingSpends(l, FALSE), fin))
              => /\ op'[o].err # "UtxoConflict"
                 /\ \A i \in 1..Len(op'[o].conflicts) : op'[o].conflicts[i].reason # "mempool"]_vars

\* a build took an input that a transaction already in the mempool spends
C38_Witness ==
  \E o \in Ops, tx \in netTxs :
    /\ tx.txid # o
    /\ op[o].pc = "broadcasting"
    /\ op[o].kind \in SelectionKinds
    /\ InputsOf(o) \cap tx.vin # {}

visitFrom(c, log, pending, t) ==
  LET RECURSIVE Visit(_, _, _)
      Visit(cur, lg, pend) ==
        LET rest == {id \in DOMAIN pend : id > cur}
        IN  IF rest = {}
            THEN [log |-> lg, pending |-> pend, run |-> NoRun]
            ELSE LET id   == CHOOSE x \in rest : \A y \in rest : x <= y
                     swap == pend[id]
                 IN  IF t - swap.timestamp > MAX_WAIT_MS
                     THEN Visit(id, Append(lg, [swapId |-> id, status |-> "timeout"]),
                                MapDelete(pend, {id}))
                     ELSE IF swap.provider \notin providerCheckers
                     THEN Visit(id, lg, pend)
                     ELSE [log |-> lg, pending |-> pend,
                           run |-> [pc |-> "lookup", cursor |-> id]]
  IN  Visit(c, log, pending)

\* the state of the call r after a turn of its loop
afterVisit(r, v) ==
  IF v.run.pc = "idle" THEN NoRun
  ELSE [pc |-> v.run.pc, cursor |-> v.run.cursor, startedAt |-> runs[r].startedAt]

trackerRest == <<now, ticks, hasKey, phase, crashes, ledger, op, netTxs, broadcastOk,
                 feeRateCache, vis, exec>>

\* the timer fires, at the earliest FIRST_GAP_MS after it fired for a call
\* still running (setTimeout at 10 s, setInterval every 30 s): on a
\* non-empty map the call awaits getTokenPrices
checkAllPending_begin(r) ==
  /\ runs[r].pc = "idle"
  /\ \A q \in Runs : q < r => runs[q].pc # "idle"
  /\ \A q \in Runs : runs[q].pc # "idle" => now >= runs[q].startedAt + FIRST_GAP_MS
  /\ pendingSwaps # EmptyMap
  /\ runs' = [runs EXCEPT ![r] = [pc |-> "prices", cursor |-> 0, startedAt |-> now]]
  /\ UNCHANGED <<pendingSwaps, settlementLog>>
  /\ UNCHANGED trackerRest

\* getTokenPrices settled: a rejection ends the call, otherwise the loop
\* starts
checkAllPending_prices(r, pricesOk) ==
  /\ runs[r].pc = "prices"
  /\ IF pricesOk
     THEN LET v == visitFrom(0, settlementLog, pendingSwaps, now)
          IN  /\ settlementLog' = v.log
              /\ pendingSwaps' = v.pending
              /\ runs' = [runs EXCEPT ![r] = afterVisit(r, v)]
     ELSE /\ runs' = [runs EXCEPT ![r] = NoRun]
          /\ UNCHANGED <<pendingSwaps, settlementLog>>
  /\ UNCHANGED trackerRest

\* checkSettlementOnce settled for the swap the call was suspended on: a
\* payout or a failure is logged and the swap deleted, a pending swap makes
\* the call await getStatusString, an exception is caught; then the loop
\* goes on
checkAllPending_answer(r, answer) ==
  /\ runs[r].pc = "lookup"
  /\ LET id == runs[r].cursor
     IN  IF answer \in {"completed", "failed"}
         THEN LET v == visitFrom(id, Append(settlementLog, [swapId |-> id, status |-> answer]),
                                 MapDelete(pendingSwaps, {id}), now)
              IN  /\ settlementLog' = v.log
                  /\ pendingSwaps' = v.pending
                  /\ runs' = [runs EXCEPT ![r] = afterVisit(r, v)]
         ELSE IF answer = "pending"
         THEN /\ runs' = [runs EXCEPT ![r].pc = "status"]
              /\ UNCHANGED <<pendingSwaps, settlementLog>>
         ELSE LET v == visitFrom(id, settlementLog, pendingSwaps, now)
              IN  /\ settlementLog' = v.log
                  /\ pendingSwaps' = v.pending
                  /\ runs' = [runs EXCEPT ![r] = afterVisit(r, v)]
  /\ UNCHANGED trackerRest

\* getStatusString settled (a rejection is caught): the loop goes on
checkAllPending_status(r) ==
  /\ runs[r].pc = "status"
  /\ LET v == visitFrom(runs[r].cursor, settlementLog, pendingSwaps, now)
     IN  /\ settlementLog' = v.log
         /\ pendingSwaps' = v.pending
         /\ runs' = [runs EXCEPT ![r] = afterVisit(r, v)]
  /\ UNCHANGED trackerRest

\* the clock between two turns of the watcher
OverlapSteps == {POLL_INTERVAL_MS, MAX_WAIT_MS}

NextOverlap ==
  \/ \E id \in SwapIds, provider \in Providers : trackSwap(id, provider)
  \/ \E r \in Runs : checkAllPending_begin(r)
  \/ \E r \in Runs, pricesOk \in BOOLEAN : checkAllPending_prices(r, pricesOk)
  \/ \E r \in Runs, answer \in SettlementAnswers : checkAllPending_answer(r, answer)
  \/ \E r \in Runs : checkAllPending_status(r)
  \/ \E d \in OverlapSteps : settleClock(d)

SpecOverlap == Init /\ [][NextOverlap]_vars

\* rows of the settlement log written for the swap id
RowsOf(id) == {i \in 1..Len(settlementLog) : settlementLog[i].swapId = id}

\* ------------------------------------------------------------------------
\* C40: the settlement log never holds more than one row for a swap, also
\* when calls of checkAllPending overlap.
\* ------------------------------------------------------------------------
C40_OneRowPerSwap ==
  \A id \in SwapIds : Cardinality(RowsOf(id)) <= 1

====
